---- MODULE Spec2Model ----
(***************************************************************************)
(* State-machine model of the rat-wgpu terminal backend (WgpuBackend):     *)
(* the dirty-tracking surface state, the per-row bidi remapping done by    *)
(* flush, the image overlay bookkeeping done by draw, and the blink path.  *)
(*                                                                         *)
(* Vectors of the program (Vec, BitVec) are functions over 0..len-1, so    *)
(* indices are the program's indices.  Lists that are only pushed to and   *)
(* iterated (image lists) are sequences.                                   *)
(*                                                                         *)
(* Text is abstracted to a small alphabet of cell symbols, each a single   *)
(* character of a given bidi class and display width:                      *)
(*   " "  the blank of Cell::EMPTY        (whitespace, width 1)            *)
(*   "a"  a Latin letter                  (strong left-to-right, width 1)  *)
(*   "W"  a CJK ideograph                 (strong left-to-right, width 2)  *)
(*   "r"  a Hebrew letter                 (strong right-to-left, width 1)  *)
(*   ""   the empty symbol of NULL_CELL   (no character)                   *)
(* The shaping engine is taken to return one glyph per character with      *)
(* zero offsets, in a monospaced font (one font, id 0).                    *)
(*                                                                         *)
(* A panic of the program (index out of range, expect on None) is the      *)
(* terminal state panicked = TRUE; the operation that panics returns       *)
(* nothing, and no further operation runs.                                 *)
(***************************************************************************)
EXTENDS Integers, Sequences, FiniteSets, TLC

VARIABLES
    cell_box,        \* fonts.cell_box(): [width, height] in px
    surface_config,  \* wgpu_base.surface_config: [width, height] in px
    tui_surface,     \* the TuiSurface record
    rendered,        \* Vec<Rendered>: per cell, the positioned glyphs
    image_buffer,    \* ImageBuffer.images, the shared pending placements
    lock,            \* owner of the ImageBuffer mutex: "free", "draw" or "app"
    pc,              \* position of the render thread inside draw(): "idle", "locked", "read"
    draw_images,     \* draw()'s local `images` while the mutex is held
    consumed,        \* history: placements taken into a frame by draw(), in order
    pushed,          \* history: placements pushed by the application, in order
    last_render,     \* history: what the last flush()/blink() handed to render()
    hist,            \* history: the last public operation and what the claims need of it
    panicked,        \* the program has panicked
    wgpu_images,     \* WgpuImages: [img_id, handles, img], the registered textures by id
    image_size,      \* ImageBuffer.image_size: the ids with a recorded size
    app_handles,     \* per image id, the clones of its ImageHandle the application holds
    dropped,         \* the ids whose shared `dropped` flag is set
    wgpu_atlas       \* WgpuAtlas.cached: the glyph atlas, [slots, entries]

vars == << cell_box, surface_config, tui_surface, rendered, image_buffer, lock, pc,
           draw_images, consumed, pushed, last_render, hist, panicked,
           wgpu_images, image_size, app_handles, dropped, wgpu_atlas >>

\* the image registry and the handles to it
image_vars == << wgpu_images, image_size, app_handles, dropped >>

----------------------------------------------------------------------------
(* Bounds of the model.                                                    *)

\* longest content (number of cells) handed to one draw()
MaxItems == 1
\* most placements pending in the shared ImageBuffer
MaxPending == 2
\* most calls of blink() followed (the u8 counters are kept below this)
MaxBlinks == 1
\* most placements the application pushes in the locking specification
MaxPushed == 3
\* most operations followed from construction in the text surface specification
TextOps == 3
\* most operations followed from construction in the image specification
ImageOps == 6
\* most operations followed from construction in the single-row specification
RowOps == 3
\* most operations followed from construction in the resize specification
ResizeOps == 3
\* most operations followed from construction in the locking specification
LockOps == 5
\* most images added with add_image
MaxImages == 2
\* most clones of one ImageHandle the application holds at a time
MaxClones == 2
\* most operations followed from construction in the image handle specification
HandleOps == 6
\* the columns of the atlas in the atlas specifications
AtlasSlots == 3
\* most calls of Atlas::get followed in the atlas specification
AtlasOps == 5
\* most calls of blink() followed in the blink counter specification
BlinkCalls == 260
\* most operations followed from construction in the color table specification
ColorOps == 4

----------------------------------------------------------------------------
(* Vectors.                                                                *)

EmptyVec == << >>

VLen(v) == Cardinality(DOMAIN v)

\* Vec::resize / BitVec::resize: truncate, or extend with `fill`.
VResize(v, n, fill) == [i \in 0..(n - 1) |-> IF i \in DOMAIN v THEN v[i] ELSE fill]

\* Vec::truncate: keeps the first n elements, no effect when n >= len.
VTruncate(v, n) == [i \in {j \in DOMAIN v : j < n} |-> v[i]]

\* v[lo..hi].fill(x) for an in-range slice lo..hi (hi exclusive).
VFill(v, lo, hi, x) == [i \in DOMAIN v |-> IF lo <= i /\ i < hi THEN x ELSE v[i]]

\* BitVec::set(i, true) for every i of a set of in-range indices.
VSetAll(v, idxs) == [i \in DOMAIN v |-> IF i \in idxs THEN TRUE ELSE v[i]]

\* the slice lo..hi is in range for v (otherwise slicing panics)
SliceOk(v, lo, hi) == lo <= hi /\ hi <= VLen(v)

Min(a, b) == IF a < b THEN a ELSE b
Max(a, b) == IF a > b THEN a ELSE b
Clamp(x, lo, hi) == Max(lo, Min(x, hi))

\* Rust integer division truncates toward zero.
TruncDiv(a, b) == IF a >= 0 THEN a \div b ELSE -((-a) \div b)

----------------------------------------------------------------------------
(* Cells and symbols.                                                      *)

EMPTY == [symbol |-> " ", skip |-> FALSE, modifier |-> {}]

NULL_CELL == [symbol |-> "", skip |-> TRUE, modifier |-> {}]

\* the characters of a symbol (each symbol of the alphabet is at most one character)
Chars(sym) == IF sym = "" THEN << >> ELSE << sym >>

\* UnicodeWidthChar::width of a character
CharWidth(ch) == IF ch = "W" THEN 2 ELSE 1

\* symbol().chars().filter(not Format).next().unwrap_or(' ').width().unwrap_or(1)
SymbolWidth(sym) == IF Chars(sym) = << >> THEN CharWidth(" ") ELSE CharWidth(Chars(sym)[1])

\* Backend::size(): the grid in cells
Size == [width  |-> (surface_config.width \div cell_box.width) % 65536,
         height |-> (surface_config.height \div cell_box.height) % 65536]

\* CellBox::cell_pos: pixel to cell position, clamped to the grid
CellPos(x, y, bounds) ==
    [x |-> Clamp(TruncDiv(x, cell_box.width), 0, Max(bounds.width - 1, 0)),
     y |-> Clamp(TruncDiv(y, cell_box.height), 0, Max(bounds.height - 1, 0))]

\* the flat indices and the rows of the cell rectangle p..p2 (both inclusive)
BoxCells(p, p2, bounds) ==
    {y * bounds.width + x : x \in (p.x)..(p2.x), y \in (p.y)..(p2.y)}
BoxRows(p, p2) == (p.y)..(p2.y)

----------------------------------------------------------------------------
(* draw(): draw_tui.                                                       *)

\* the cells and rows a positioned glyph touches: cell_pos of its two corners
GlyphCells(g, bounds) ==
    BoxCells(CellPos(g.x, g.y, bounds), CellPos(g.x + g.width, g.y + g.height, bounds), bounds)
GlyphRows(g, bounds) ==
    BoxRows(CellPos(g.x, g.y, bounds), CellPos(g.x + g.width, g.y + g.height, bounds))

\* a tail that stops one cell early
WideTailShort(index, w) == (index + 1)..(index + w - 2)

\* the cells that receive NULL_CELL after a symbol of display width w at index
WideTail(index, w) == (index + 1)..(index + w - 1)

\* One iteration of the content loop: s is [ts, panic], it is (x, y, cell).
DrawCell(s, it, bounds, rend) ==
    LET ts    == s.ts
        index == it.y * bounds.width + it.x
        w     == SymbolWidth(it.cell.symbol)
    IN  IF s.panic THEN s
        ELSE IF index >= VLen(ts.fast_blinking) THEN [s EXCEPT !.panic = TRUE]
        ELSE IF w > 1 /\ ~SliceOk(ts.cells, index + 1, index + w) THEN [s EXCEPT !.panic = TRUE]
        ELSE
        LET touched  == UNION {GlyphCells(rend[index][k], bounds) : k \in 1..Len(rend[index])}
            touchedR == UNION {GlyphRows(rend[index][k], bounds) : k \in 1..Len(rend[index])}
            tail     == WideTail(index, w)
        IN  [s EXCEPT
               !.ts.fast_blinking = [ts.fast_blinking EXCEPT ![index] = "RAPID_BLINK" \in it.cell.modifier],
               !.ts.slow_blinking = [ts.slow_blinking EXCEPT ![index] = "SLOW_BLINK" \in it.cell.modifier],
               !.ts.cells = [i \in DOMAIN ts.cells |->
                                IF i = index THEN it.cell
                                ELSE IF i \in tail THEN NULL_CELL ELSE ts.cells[i]],
               !.ts.cell_font = [ts.cell_font EXCEPT ![index] = 0],
               !.ts.dirty_cells = VSetAll(ts.dirty_cells, touched \cup {index} \cup tail),
               !.ts.dirty_rows = VSetAll(ts.dirty_rows, touchedR \cup {it.y})]

RECURSIVE DrawContent(_, _, _, _, _)
DrawContent(s, content, k, bounds, rend) ==
    IF k > Len(content) THEN s
    ELSE DrawContent(DrawCell(s, content[k], bounds, rend), content, k + 1, bounds, rend)

\* draw_tui up to the content loop: resize every per-cell vector to the grid
DrawResize(ts, bounds) ==
    LET n == bounds.height * bounds.width
    IN  [ts EXCEPT
           !.cells = VResize(ts.cells, n, EMPTY),
           !.cell_font = VResize(ts.cell_font, n, 0),
           !.cell_remap = VResize(ts.cell_remap, n, 0),
           !.fast_blinking = VResize(ts.fast_blinking, n, FALSE),
           !.slow_blinking = VResize(ts.slow_blinking, n, FALSE),
           !.dirty_rows = VResize(ts.dirty_rows, bounds.height, TRUE),
           !.dirty_cells = VResize(ts.dirty_cells, n, TRUE)]

\* the text half of draw_tui: [ts, rendered, panic]
DrawTuiCells(ts, rend, content, bounds) ==
    LET rend1 == VResize(rend, bounds.height * bounds.width, << >>)
        s     == DrawContent([ts |-> DrawResize(ts, bounds), panic |-> FALSE],
                             content, 1, bounds, rend1)
    IN  [ts |-> s.ts, rendered |-> rend1, panic |-> s.panic]

\* ImageInfo built from a queued ImageCell
ImageInfoOf(c) ==
    [image_id |-> c.image_id, view_rect |-> c.view_rect, view_clip |-> c.view_clip,
     below_text |-> c.below_text, uv_transform |-> c.tr]

\* the cell rectangle an image covers
ImgPos(img, bounds) == CellPos(img.view_rect[1], img.view_rect[2], bounds)
ImgPos2(img, bounds) ==
    CellPos(img.view_rect[1] + img.view_rect[3], img.view_rect[2] + img.view_rect[4], bounds)
ImgRows(img, bounds) == BoxRows(ImgPos(img, bounds), ImgPos2(img, bounds))
ImgCells(img, bounds) == BoxCells(ImgPos(img, bounds), ImgPos2(img, bounds), bounds)

\* iter().position(|test| test.image_id == id && test.view_rect == rect), 0 when None
ImagePosition(images, info) ==
    LET hits == {k \in 1..Len(images) :
                    images[k].image_id = info.image_id /\ images[k].view_rect = info.view_rect}
    IN  IF hits = {} THEN 0 ELSE CHOOSE k \in hits : \A j \in hits : k <= j

RemoveAt(s, pos) == [k \in 1..(Len(s) - 1) |-> IF k < pos THEN s[k] ELSE s[k + 1]]

\* n copies of x appended to s
RECURSIVE PushN(_, _, _)
PushN(s, x, n) == IF n = 0 THEN s ELSE PushN(Append(s, x), x, n - 1)

\* "find dirty images" for an image found unchanged in the previous frame:
\* one push for every covered row whose dirty_rows bit is set now
DirtyRowHits(ts, info, bounds) ==
    Cardinality({y \in ImgRows(info, bounds) : ts.dirty_rows[y]})

\* One iteration of the loop over the pending placements: s is [ts, images, panic].
ScanImage(s, c, bounds) ==
    LET ts   == s.ts
        info == ImageInfoOf(c)
        pos  == ImagePosition(ts.images, info)
    IN  IF s.panic THEN s
        ELSE IF pos = 0
        THEN [s EXCEPT !.images = Append(s.images, info),
                       !.ts.dirty_img = Append(ts.dirty_img, info)]
        ELSE IF ts.images[pos].below_text # info.below_text
                \/ ts.images[pos].uv_transform # info.uv_transform
        THEN [s EXCEPT !.images = Append(s.images, info),
                       !.ts.dirty_img = Append(ts.dirty_img, info),
                       !.ts.images = RemoveAt(ts.images, pos)]
        ELSE IF \E y \in ImgRows(info, bounds) : y \notin DOMAIN ts.dirty_rows
        THEN [s EXCEPT !.panic = TRUE]
        ELSE [s EXCEPT !.images = Append(s.images, info),
                       !.ts.dirty_img = PushN(ts.dirty_img, info, DirtyRowHits(ts, info, bounds)),
                       !.ts.images = RemoveAt(ts.images, pos)]

RECURSIVE ScanImages(_, _, _, _)
ScanImages(s, pending, k, bounds) ==
    IF k > Len(pending) THEN s
    ELSE ScanImages(ScanImage(s, pending[k], bounds), pending, k + 1, bounds)

\* the loop over image_buffer.images: [ts, images, panic]
DrawTuiScan(ts, pending, bounds) ==
    ScanImages([ts |-> ts, images |-> << >>, panic |-> FALSE], pending, 1, bounds)

\* after the loop: cells and rows under removed or dirty images become dirty,
\* and the frame's images become the previous frame: [ts, panic]
DrawTuiFinish(ts, images, bounds) ==
    LET both  == ts.images \o ts.dirty_img
        cells == UNION {ImgCells(both[k], bounds) : k \in 1..Len(both)}
        rows  == UNION {ImgRows(both[k], bounds) : k \in 1..Len(both)}
    IN  IF ~(cells \subseteq DOMAIN ts.dirty_cells) \/ ~(rows \subseteq DOMAIN ts.dirty_rows)
        THEN [ts |-> ts, panic |-> TRUE]
        ELSE [ts |-> [ts EXCEPT !.dirty_cells = VSetAll(ts.dirty_cells, cells),
                                !.dirty_rows = VSetAll(ts.dirty_rows, rows),
                                !.images = images],
              panic |-> FALSE]

\* draw_tui as a whole: [ts, rendered, panic]
DrawTui(ts, rend, content, pending, bounds) ==
    LET a == DrawTuiCells(ts, rend, content, bounds)
        b == DrawTuiScan(a.ts, pending, bounds)
        c == DrawTuiFinish(b.ts, b.images, bounds)
    IN  IF a.panic \/ b.panic THEN [ts |-> ts, rendered |-> rend, panic |-> TRUE]
        ELSE [ts |-> c.ts, rendered |-> a.rendered, panic |-> c.panic]

----------------------------------------------------------------------------
(* Bidi analysis of one row: ParagraphBidiInfo::new(text, None) and        *)
(* visual_runs, for the bidi classes of the alphabet (L, R, WS).           *)

BidiClass(ch) == IF ch = "r" THEN "R" ELSE IF ch = " " THEN "WS" ELSE "L"

Strong(ch) == BidiClass(ch) # "WS"

\* rules P2, P3: the level of the first strong character, 0 when there is none
ParaLevel(text) ==
    LET strong == {k \in 1..Len(text) : Strong(text[k].ch)}
    IN  IF strong = {} THEN 0
        ELSE LET k == CHOOSE j \in strong : \A i \in strong : j <= i
             IN  IF BidiClass(text[k].ch) = "R" THEN 1 ELSE 0

LevelDir(level) == IF level % 2 = 1 THEN "R" ELSE "L"

\* the strong direction before / after position k; sos and eos are the paragraph direction
DirBefore(text, k, para) ==
    LET strong == {j \in 1..(k - 1) : Strong(text[j].ch)}
    IN  IF strong = {} THEN LevelDir(para)
        ELSE BidiClass(text[CHOOSE j \in strong : \A i \in strong : i <= j].ch)
DirAfter(text, k, para) ==
    LET strong == {j \in (k + 1)..Len(text) : Strong(text[j].ch)}
    IN  IF strong = {} THEN LevelDir(para)
        ELSE BidiClass(text[CHOOSE j \in strong : \A i \in strong : j <= i].ch)

\* rules N1, N2: the direction a character resolves to
ResolvedDir(text, k, para) ==
    IF Strong(text[k].ch) THEN BidiClass(text[k].ch)
    ELSE IF DirBefore(text, k, para) = DirAfter(text, k, para) THEN DirBefore(text, k, para)
    ELSE LevelDir(para)

\* rules I1, I2 and L1 (trailing whitespace takes the paragraph level)
BidiLevels(text) ==
    LET para == ParaLevel(text)
    IN  [k \in 1..Len(text) |->
            IF \A j \in k..Len(text) : ~Strong(text[j].ch) THEN para
            ELSE IF ResolvedDir(text, k, para) = LevelDir(para) THEN para
            ELSE para + 1]

\* the level runs of the line in logical order: [start, end, level], end exclusive
RECURSIVE LevelRuns(_, _, _)
LevelRuns(levels, start, k) ==
    IF start > Len(levels) THEN << >>
    ELSE IF k > Len(levels) \/ levels[k] # levels[start]
    THEN << [start |-> start, end |-> k, level |-> levels[start]] >> \o LevelRuns(levels, k, k)
    ELSE LevelRuns(levels, start, k + 1)

Reverse(s) == [k \in 1..Len(s) |-> s[Len(s) + 1 - k]]

\* rule L2 for one level: reverse every maximal sequence of runs at that level or higher
RECURSIVE ReverseAtLeast(_, _)
ReverseAtLeast(runs, level) ==
    IF runs = << >> THEN << >>
    ELSE IF runs[1].level < level THEN << runs[1] >> \o ReverseAtLeast(Tail(runs), level)
    ELSE LET low == {k \in 1..Len(runs) : runs[k].level < level}
             n   == IF low = {} THEN Len(runs)
                    ELSE (CHOOSE k \in low : \A j \in low : k <= j) - 1
         IN  Reverse(SubSeq(runs, 1, n)) \o ReverseAtLeast(SubSeq(runs, n + 1, Len(runs)), level)

\* visual_runs: the level runs in visual order (levels of the alphabet are 0, 1, 2)
VisualRuns(levels) ==
    LET runs == LevelRuns(levels, 1, 1)
        maxl == IF \E k \in 1..Len(levels) : levels[k] = 2 THEN 2
                ELSE IF \E k \in 1..Len(levels) : levels[k] = 1 THEN 1 ELSE 0
        r2   == IF maxl >= 2 THEN ReverseAtLeast(runs, 2) ELSE runs
    IN  IF maxl >= 1 THEN ReverseAtLeast(r2, 1) ELSE r2

----------------------------------------------------------------------------
(* The glyph atlas (text_atlas::Atlas): one shelf of `slots` columns, each *)
(* one cell box wide; an entry is [key, x, width], a rectangle of `width`  *)
(* columns starting at column x.  The entries are kept in order of use,    *)
(* least recently used first.  An atlas with slots = 0 stands for an atlas *)
(* that holds every glyph of the alphabet at once: nothing is ever         *)
(* evicted, every key keeps a rectangle of its own, and the rectangle is   *)
(* named by the key.                                                       *)

AtlasNew(slots) == [slots |-> slots, entries |-> << >>]

\* the position of the key in the entries, 0 when it is not cached
AtlasFind(atlas, key) ==
    IF \E k \in 1..Len(atlas.entries) : atlas.entries[k].key = key
    THEN CHOOSE k \in 1..Len(atlas.entries) : atlas.entries[k].key = key
    ELSE 0

\* the columns x .. x+width-1 are inside the atlas and hold no entry
AtlasFree(atlas, x, width) ==
    /\ x + width <= atlas.slots
    /\ \A k \in 1..Len(atlas.entries) :
          atlas.entries[k].x + atlas.entries[k].width <= x \/ x + width <= atlas.entries[k].x

AtlasFits(atlas, width) == \E x \in 0..(atlas.slots - 1) : AtlasFree(atlas, x, width)

\* shelf packing: the leftmost free place
AtlasPlace(atlas, width) ==
    CHOOSE x \in 0..(atlas.slots - 1) :
        AtlasFree(atlas, x, width) /\ \A z \in 0..(x - 1) : ~AtlasFree(atlas, z, width)

\* a hit leaves the order of the entries alone
AtlasKeep(entries, pos) == entries

\* a hit marks the entry most recently used
AtlasTouch(entries, pos) ==
    SubSeq(entries, 1, pos - 1) \o SubSeq(entries, pos + 1, Len(entries)) \o << entries[pos] >>

\* evict in least-recently-used order until a rectangle of the width fits:
\* [atlas, evicted]
RECURSIVE AtlasMakeRoom(_, _, _)
AtlasMakeRoom(atlas, width, evicted) ==
    IF AtlasFits(atlas, width) \/ atlas.entries = << >>
    THEN [atlas |-> atlas, evicted |-> evicted]
    ELSE AtlasMakeRoom([atlas EXCEPT !.entries = Tail(@)], width,
                       Append(evicted, atlas.entries[1].key))

\* Atlas::get(key, width, height): [atlas, rect, cached, evicted, panic]
AtlasGet(atlas, key, width) ==
    LET pos  == AtlasFind(atlas, key)
        Miss(room) ==
            IF ~AtlasFits(room.atlas, width)
            THEN [atlas |-> room.atlas, rect |-> [x |-> 0, width |-> width], cached |-> FALSE,
                  evicted |-> room.evicted, panic |-> TRUE]
            ELSE [atlas |-> [room.atlas EXCEPT !.entries =
                                Append(@, [key |-> key, x |-> AtlasPlace(room.atlas, width),
                                           width |-> width])],
                  rect |-> [x |-> AtlasPlace(room.atlas, width), width |-> width],
                  cached |-> FALSE, evicted |-> room.evicted, panic |-> FALSE]
    IN  IF atlas.slots = 0
        THEN [atlas |-> atlas, rect |-> [key |-> key], cached |-> TRUE, evicted |-> << >>,
              panic |-> FALSE]
        ELSE IF pos # 0
        THEN [atlas |-> [atlas EXCEPT !.entries = AtlasTouch(@, pos)],
              rect |-> [x |-> atlas.entries[pos].x, width |-> atlas.entries[pos].width],
              cached |-> TRUE, evicted |-> << >>, panic |-> FALSE]
        ELSE CHOOSE r \in {Miss(room) : room \in {AtlasMakeRoom(atlas, width, << >>)}} : TRUE

\* the rectangle the atlas holds for a key, NoRect when the key is not cached
NoRect == [x |-> -1, width |-> 0]
AtlasRect(atlas, key) ==
    IF atlas.slots = 0 THEN [key |-> key]
    ELSE IF AtlasFind(atlas, key) = 0 THEN NoRect
    ELSE [x |-> atlas.entries[AtlasFind(atlas, key)].x,
          width |-> atlas.entries[AtlasFind(atlas, key)].width]

----------------------------------------------------------------------------
(* flush(): flush_tui and shape.                                           *)

\* the row's cells: cells.chunks(width).nth(row_idx)
RowLen(ts, row_idx, bounds) == Min(bounds.width, VLen(ts.cells) - row_idx * bounds.width)

\* tmp_rowbuf with tmp_rowbuf_to_cell: the characters of the non-skip cells of
\* the row, each with its cell index (every byte of a character maps to its cell)
RECURSIVE RowBuf(_, _, _, _)
RowBuf(ts, row_offset, cell_idx, n) ==
    IF cell_idx >= n THEN << >>
    ELSE LET cell == ts.cells[row_offset + cell_idx]
             here == IF cell.skip THEN << >>
                     ELSE [k \in 1..Len(Chars(cell.symbol)) |->
                              [ch |-> Chars(cell.symbol)[k], cell |-> cell_idx]]
         IN  here \o RowBuf(ts, row_offset, cell_idx + 1, n)

\* CursorStyle::to_ltr and CursorStyle::to_rtl
to_ltr(style) ==
    IF style = "RtlBar" THEN "Bar"
    ELSE IF style = "RtlBoldBar" THEN "RtlBoldBar"
    ELSE style
KeepStyle(style) == style

to_rtl(style) ==
    IF style = "Bar" THEN "RtlBar"
    ELSE IF style = "BoldBar" THEN "RtlBoldBar"
    ELSE style

\* the atlas key of a glyph of a cell: Key { style, glyph, width, font }
GlyphKey(cell, ch, chars_wide, font_id) ==
    [style |-> cell.modifier \cap {"BOLD", "ITALIC"}, glyph |-> ch, width |-> chars_wide,
     font |-> font_id]

\* shape(): one glyph per character of the buffer; glyphs of cells that are not
\* dirty are skipped, the others are looked up in the atlas and positioned at
\* the cell's visual column.  ra is [rendered, atlas, panic].
RECURSIVE Shape(_, _, _, _, _, _, _)
ShapeSkipsNone(dirty_cells, idx) == FALSE

\* `if !dirty_cells[cell_idx] { continue; }`
ShapeSkips(dirty_cells, idx) == ~dirty_cells[idx]

Shape(ra, buf, k, ts, row_idx, row_offset, remap) ==
    IF k > Len(buf) \/ ra.panic THEN ra
    ELSE LET cell_idx   == buf[k].cell
             chars_wide == Min(Max(CharWidth(buf[k].ch), 1), 2)
             first      == k = 1 \/ buf[k - 1].cell # cell_idx
             key   == GlyphKey(ts.cells[row_offset + cell_idx], buf[k].ch, chars_wide,
                               ts.cell_font[row_offset + cell_idx])
             glyph(got) ==
                      [x |-> remap[row_offset + cell_idx] * cell_box.width,
                       y |-> row_idx * cell_box.height,
                       glyph |-> buf[k].ch,
                       width |-> chars_wide * cell_box.width,
                       height |-> cell_box.height,
                       cursor |-> first /\ ts.cursor_visible
                                  /\ << cell_idx, row_idx >> = ts.cursor,
                       key |-> key,
                       cached |-> got.rect]
         IN  IF ShapeSkips(ts.dirty_cells, row_offset + cell_idx)
             THEN Shape(ra, buf, k + 1, ts, row_idx, row_offset, remap)
             ELSE CHOOSE r \in
                     {Shape([rendered |-> [ra.rendered EXCEPT ![row_offset + cell_idx] =
                                              Append(@, glyph(got))],
                             atlas |-> got.atlas, panic |-> got.panic],
                            buf, k + 1, ts, row_idx, row_offset, remap) :
                        got \in {AtlasGet(ra.atlas, key, chars_wide)}} : TRUE

\* the visual column of a cell taken as its logical column
LogicalViewIdx(start_cell_idx, min_cell_idx, max_cell_idx, current_cell_idx) == current_cell_idx

\* the visual column of a cell of a right-to-left run
RtlViewIdx(start_cell_idx, min_cell_idx, max_cell_idx, current_cell_idx) ==
    start_cell_idx + (max_cell_idx - min_cell_idx) - (current_cell_idx - start_cell_idx)

\* current_cell_idx for the next character
NextCellIdx(ts, row_offset, current_cell_idx, cell_idx) ==
    IF current_cell_idx = -1 THEN 0
    ELSE IF current_cell_idx # cell_idx
    THEN current_cell_idx + SymbolWidth(ts.cells[row_offset + current_cell_idx].symbol)
    ELSE current_cell_idx

\* One character of a run: s is [ts, rendered, atlas, buf, current_level,
\* current_cell_idx, start_cell_idx, panic]; start_cell_idx is -1 for None.
FlushChar(s, c, run, text, row_idx, row_offset, n) ==
    LET ts   == s.ts
        cidx == NextCellIdx(ts, row_offset, s.current_cell_idx, c.cell)
        brk  == s.current_level # -1 /\ run.level # s.current_level
        ra   == [rendered |-> s.rendered, atlas |-> s.atlas, panic |-> FALSE]
        buf  == IF brk THEN << >> ELSE s.buf
        start == IF s.start_cell_idx = -1 THEN cidx ELSE s.start_cell_idx
        view == IF run.level % 2 = 1
                THEN RtlViewIdx(start, text[run.start].cell, text[run.end - 1].cell, cidx)
                ELSE cidx
        atcur == << c.cell, row_idx >> = ts.cursor
        style == IF ~atcur THEN ts.cursor_style
                 ELSE IF run.level % 2 = 1 THEN to_rtl(ts.cursor_style)
                 ELSE to_ltr(ts.cursor_style)
    IN  IF s.panic THEN s
        \* row_cells[current_cell_idx] is indexed when the counter advances
        ELSE IF s.current_cell_idx # -1 /\ s.current_cell_idx # c.cell /\ s.current_cell_idx >= n
        THEN [s EXCEPT !.panic = TRUE]
        ELSE CHOOSE r \in
            {IF rend.panic THEN [s EXCEPT !.panic = TRUE]
             ELSE [s EXCEPT !.ts.cell_remap = [ts.cell_remap EXCEPT
                                                  ![row_offset + c.cell] = view % 65536],
                            !.ts.cursor_style = style,
                            !.rendered = rend.rendered,
                            !.atlas = rend.atlas,
                            !.buf = Append(buf, c),
                            !.current_level = run.level,
                            !.current_cell_idx = cidx,
                            !.start_cell_idx = start] :
               rend \in {IF brk
                         THEN Shape(ra, s.buf, 1, ts, row_idx, row_offset, ts.cell_remap)
                         ELSE ra}} : TRUE

RECURSIVE FlushRun(_, _, _, _, _, _, _)
FlushRun(s, run, k, text, row_idx, row_offset, n) ==
    IF k >= run.end THEN s
    ELSE FlushRun(FlushChar(s, text[k], run, text, row_idx, row_offset, n),
                  run, k + 1, text, row_idx, row_offset, n)

RECURSIVE FlushRuns(_, _, _, _, _, _, _)
FlushRuns(s, runs, r, text, row_idx, row_offset, n) ==
    IF r > Len(runs) THEN s
    ELSE FlushRuns(FlushRun([s EXCEPT !.start_cell_idx = -1], runs[r], runs[r].start,
                            text, row_idx, row_offset, n),
                   runs, r + 1, text, row_idx, row_offset, n)

\* the cells of a dirty row are in range for every vector the row loop indexes
RowInRange(ts, rend, row_offset, n, bounds) ==
    /\ row_offset + n <= VLen(ts.cell_remap)
    /\ row_offset + n <= VLen(ts.cell_font)
    /\ row_offset + bounds.width <= VLen(ts.dirty_cells)
    /\ row_offset + bounds.width <= VLen(rend)

RenderedKept(dirty_cells, idx) == FALSE

\* "rebuild rendered glyphs from scratch": the list of a dirty cell is cleared
RenderedCleared(dirty_cells, idx) == dirty_cells[idx]

\* One row of flush_tui: s is [ts, rendered, atlas, panic]; empty_panics tells whether
\* visual_runs of an empty text panics.
FlushRow(s, row_idx, bounds, empty_panics) ==
    LET ts0        == s.ts
        row_offset == row_idx * bounds.width
        n          == RowLen(ts0, row_idx, bounds)
    IN  IF s.panic THEN s
        ELSE IF row_idx \notin DOMAIN ts0.dirty_rows THEN [s EXCEPT !.panic = TRUE]
        ELSE IF ~ts0.dirty_rows[row_idx] THEN s
        ELSE IF ~RowInRange(ts0, s.rendered, row_offset, n, bounds) THEN [s EXCEPT !.panic = TRUE]
        ELSE
        LET text   == RowBuf(ts0, row_offset, 0, n)
            ident  == [i \in DOMAIN ts0.cell_remap |->
                          IF row_offset <= i /\ i < row_offset + n THEN i - row_offset
                          ELSE ts0.cell_remap[i]]
            levels == BidiLevels(text)
            runs   == VisualRuns(levels)
            dirty  == IF Len(runs) > 1
                      THEN VFill(ts0.dirty_cells, row_offset, row_offset + bounds.width, TRUE)
                      ELSE ts0.dirty_cells
            rend1  == [i \in DOMAIN s.rendered |->
                          IF /\ row_offset <= i /\ i < row_offset + bounds.width
                             /\ RenderedCleared(dirty, i)
                          THEN << >> ELSE s.rendered[i]]
            ts1    == [ts0 EXCEPT !.cell_remap = ident, !.dirty_cells = dirty]
            s1     == [ts |-> ts1, rendered |-> rend1, atlas |-> s.atlas, buf |-> << >>,
                       current_level |-> -1, current_cell_idx |-> -1,
                       start_cell_idx |-> -1, panic |-> FALSE]
        IN  IF text = << >>
            THEN IF empty_panics THEN [s EXCEPT !.panic = TRUE]
                 ELSE [ts |-> ts1, rendered |-> rend1, atlas |-> s.atlas, panic |-> FALSE]
            ELSE CHOOSE r \in
                {IF t.panic THEN [s EXCEPT !.panic = TRUE]
                 ELSE CHOOSE q \in
                    {[ts |-> t.ts, rendered |-> ra.rendered, atlas |-> ra.atlas,
                      panic |-> ra.panic] :
                       ra \in {Shape([rendered |-> t.rendered, atlas |-> t.atlas,
                                      panic |-> FALSE],
                                     t.buf, 1, t.ts, row_idx, row_offset, t.ts.cell_remap)}} :
                    TRUE :
                   t \in {FlushRuns(s1, runs, 1, text, row_idx, row_offset, n)}} : TRUE

RECURSIVE FlushRows(_, _, _, _, _)
FlushRows(s, row_idx, nrows, bounds, empty_panics) ==
    IF row_idx >= nrows THEN s
    ELSE FlushRows(FlushRow(s, row_idx, bounds, empty_panics), row_idx + 1, nrows, bounds, empty_panics)

\* the number of chunks of cells.chunks(width)
Chunks(len, width) == (len + width - 1) \div width

\* flush_tui: [ts, rendered, atlas, panic]
FlushTui(ts, rend, atlas, bounds, empty_panics) ==
    LET ts0 == [ts EXCEPT !.cursor_showing = TRUE, !.cursor_blink = 0]
    IN  IF bounds.width = 0 \/ bounds.height = 0
        THEN [ts |-> ts0, rendered |-> rend, atlas |-> atlas, panic |-> FALSE]
        ELSE FlushRows([ts |-> ts0, rendered |-> rend, atlas |-> atlas, panic |-> FALSE],
                       0, Chunks(VLen(ts.cells), bounds.width), bounds, empty_panics)

----------------------------------------------------------------------------
(* Vertex emission and render.                                             *)

\* the indices whose bit is set, ascending: BitVec::iter_ones
RECURSIVE IterOnes(_, _)
IterOnes(bits, i) ==
    IF i >= VLen(bits) THEN << >>
    ELSE (IF bits[i] THEN << i >> ELSE << >>) \o IterOnes(bits, i + 1)

\* the glyph quads append_rendered emits for a list of cell indices
RECURSIVE CountQuads(_, _, _)
CountQuads(rend, idxs, k) ==
    IF k > Len(idxs) THEN 0
    ELSE (IF idxs[k] \in DOMAIN rend THEN Len(rend[idxs[k]]) ELSE 0) + CountQuads(rend, idxs, k + 1)

NoVertices == [quads |-> 0, img_render |-> << >>, cells |-> {}]

VerticesEmpty(v) == v.quads = 0 /\ v.img_render = << >>

\* append_dirty_rows: [ts, vertices, panic]
AppendDirtyRows(ts, needs_update, rend) ==
    LET ones == IterOnes(ts.dirty_cells, 0)
    IN  IF ~(needs_update
             \/ (\E y \in DOMAIN ts.dirty_rows : ts.dirty_rows[y])
             \/ ts.dirty_img # << >>)
        THEN [ts |-> ts, vertices |-> NoVertices, panic |-> FALSE]
        ELSE IF \E k \in 1..Len(ones) : ones[k] \notin DOMAIN rend
        THEN [ts |-> ts, vertices |-> NoVertices, panic |-> TRUE]
        ELSE [ts |-> [ts EXCEPT !.dirty_rows = [y \in DOMAIN ts.dirty_rows |-> FALSE],
                                !.dirty_cells = [i \in DOMAIN ts.dirty_cells |-> FALSE],
                                !.dirty_img = << >>],
              vertices |-> [quads |-> CountQuads(rend, ones, 1), img_render |-> ts.dirty_img,
                            cells |-> {ones[k] : k \in 1..Len(ones)}],
              panic |-> FALSE]

\* render(): what reaches the GPU: [op, quads, img_render, cells, pass, submitted];
\* cells are the cells whose Rendered lists the quads were built from
Render(op, vertices, needs_update, acquire_ok) ==
    IF VerticesEmpty(vertices) /\ ~needs_update
    THEN [op |-> op, quads |-> 0, img_render |-> << >>, cells |-> {}, pass |-> FALSE,
          submitted |-> FALSE]
    ELSE [op |-> op, quads |-> vertices.quads, img_render |-> vertices.img_render,
          cells |-> vertices.cells, pass |-> TRUE, submitted |-> acquire_ok]

\* render_img: images.img.get(&img_info.image_id).expect("image") finds the
\* texture of every image quad of a render pass
RenderImgOk(vertices, needs_update, images) ==
    (VerticesEmpty(vertices) /\ ~needs_update)
        \/ \A k \in 1..Len(vertices.img_render) : vertices.img_render[k].image_id \in images.img

----------------------------------------------------------------------------
(* The image registry: add_image, the ImageHandle, drop_images.            *)

WgpuImagesNew == [img_id |-> 0, handles |-> {}, img |-> {}]

\* add_image: the next id is registered with its texture
AddImageOp(images) ==
    [images EXCEPT !.img_id = @ + 1, !.handles = @ \cup {images.img_id},
                   !.img = @ \cup {images.img_id}]

\* Drop for ImageHandle: any clone that is dropped stores true in the shared flag
HandleDrop(flags, id) == flags \cup {id}

\* ImageHandle::is_last: the handle's dropped flag is set
is_last(flags, id) == id \in flags

\* drop_images: [images, image_size]
DropImages(images, sizes, flags) ==
    LET gone == {id \in images.handles : is_last(flags, id)}
    IN  [images |-> [images EXCEPT !.handles = @ \ gone, !.img = @ \ gone],
         image_size |-> sizes \ gone]

\* the registry after n calls of add_image
RECURSIVE AddedImages(_)
AddedImages(n) == IF n = 0 THEN WgpuImagesNew ELSE AddImageOp(AddedImages(n - 1))

----------------------------------------------------------------------------
(* blink(): flush_blink.                                                   *)

BlinkText(b) == b \in {"TEXT", "BOTH"}
BlinkCursor(b) == b \in {"CURSOR", "BOTH"}

Toggle(showing, divisor, counter) ==
    IF divisor # 0 /\ counter % divisor = 0 THEN ~showing ELSE showing

\* the blink counters and showing flags after one more call
BlinkCounters(ts) ==
    LET blink  == (ts.blink + 1) % 256
        cblink == (ts.cursor_blink + 1) % 256
    IN  [ts EXCEPT
           !.blink = blink,
           !.fast_blink_showing = Toggle(@, ts.fast_blink_divisor, blink),
           !.slow_blink_showing = Toggle(@, ts.slow_blink_divisor, blink),
           !.cursor_blink = cblink,
           !.cursor_showing = Toggle(@, ts.cursor_divisor, cblink)]

\* cell_indexes: the blinking cells, then the cursor cell
BlinkCellIndexes(ts, b, bounds) ==
    (IF BlinkText(b) THEN IterOnes(ts.fast_blinking, 0) \o IterOnes(ts.slow_blinking, 0)
     ELSE << >>)
    \o (IF ts.cursor_visible /\ BlinkCursor(b)
        THEN << ts.cursor[2] * bounds.width + ts.cursor[1] >> ELSE << >>)

InSeq(s, x) == \E k \in 1..Len(s) : s[k] = x

\* the image quads of one image: one for each covered cell that is in cell_indexes,
\* rows outermost, clipped to the cell
RECURSIVE BlinkImageQuads(_, _, _, _, _, _)
BlinkImageQuads(img, idxs, y, x, p2, bounds) ==
    IF y > p2.y THEN << >>
    ELSE IF x > p2.x THEN BlinkImageQuads(img, idxs, y + 1, ImgPos(img, bounds).x, p2, bounds)
    ELSE (IF InSeq(idxs, y * bounds.width + x)
          THEN << [img EXCEPT !.view_clip = << x * cell_box.width, y * cell_box.height,
                                               cell_box.width, cell_box.height >>] >>
          ELSE << >>)
         \o BlinkImageQuads(img, idxs, y, x + 1, p2, bounds)

RECURSIVE BlinkImages(_, _, _, _)
BlinkImages(imgs, idxs, k, bounds) ==
    IF k > Len(imgs) THEN << >>
    ELSE BlinkImageQuads(imgs[k], idxs, ImgPos(imgs[k], bounds).y, ImgPos(imgs[k], bounds).x,
                         ImgPos2(imgs[k], bounds), bounds)
         \o BlinkImages(imgs, idxs, k + 1, bounds)

\* the rows flush_blink's image loop passes to dirty_rows.set(y, true)
BlinkImageRows(ts, bounds) ==
    LET both == ts.images \o ts.dirty_img
    IN  UNION {ImgRows(both[k], bounds) : k \in 1..Len(both)}

\* flush_blink: [ts, vertices, panic]
FlushBlink(ts, rend, b, bounds) ==
    LET ts1  == BlinkCounters(ts)
        idxs == BlinkCellIndexes(ts1, b, bounds)
        rows == BlinkImageRows(ts1, bounds)
    IN  IF ~(rows \subseteq DOMAIN ts1.dirty_rows)
        THEN [ts |-> ts, vertices |-> NoVertices, panic |-> TRUE]
        ELSE [ts |-> [ts1 EXCEPT !.dirty_rows = VSetAll(ts1.dirty_rows, rows)],
              vertices |-> [quads |-> CountQuads(rend, idxs, 1),
                            img_render |-> BlinkImages(ts1.images \o ts1.dirty_img, idxs, 1, bounds),
                            cells |-> {idxs[k] : k \in 1..Len(idxs)} \cap DOMAIN rend],
              panic |-> FALSE]

----------------------------------------------------------------------------
(* Cursor, clear and resize operations on the surface state.               *)

\* a u16 subtraction a - b: [value, overflow]; with overflow checks the
\* operation panics, without them it wraps
SubU16(a, b) == [value |-> (a - b) % 65536, overflow |-> a < b]

\* set_cursor_position: [ts, panic]
SetCursor(ts, pos, bounds, overflow_checks) ==
    LET old == ts.cursor[2] * bounds.width + ts.cursor[1]
        mx  == SubU16(bounds.width, 1)
        my  == SubU16(bounds.height, 1)
        cur == << Min(pos[1], mx.value), Min(pos[2], my.value) >>
        new == cur[2] * bounds.width + cur[1]
    IN  IF ts.cursor[2] \notin DOMAIN ts.dirty_rows \/ old \notin DOMAIN ts.dirty_cells
        THEN [ts |-> ts, panic |-> TRUE]
        ELSE IF (mx.overflow \/ my.overflow) /\ overflow_checks
        THEN [ts |-> ts, panic |-> TRUE]
        ELSE IF cur[2] \notin DOMAIN ts.dirty_rows \/ new \notin DOMAIN ts.dirty_cells
        THEN [ts |-> ts, panic |-> TRUE]
        ELSE [ts |-> [ts EXCEPT !.cursor = cur,
                                !.dirty_rows = VSetAll(ts.dirty_rows, {ts.cursor[2], cur[2]}),
                                !.dirty_cells = VSetAll(ts.dirty_cells, {old, new})],
              panic |-> FALSE]

\* clear(): [ts, rendered]
ClearAll(ts) ==
    [ts |-> [ts EXCEPT !.cells = EmptyVec, !.cell_font = EmptyVec, !.dirty_rows = EmptyVec,
                       !.fast_blinking = EmptyVec, !.slow_blinking = EmptyVec,
                       !.cursor = << 0, 0 >>],
     rendered |-> EmptyVec]

\* clear_region(AfterCursor)
ClearAfterCursor(ts, idx) ==
    [ts EXCEPT !.cells = VTruncate(ts.cells, idx + 1),
               !.cell_font = VTruncate(ts.cell_font, idx + 1),
               !.cell_remap = VTruncate(ts.cell_remap, idx + 1),
               !.dirty_rows = VTruncate(ts.dirty_rows, ts.cursor[2]),
               !.dirty_cells = VTruncate(ts.dirty_cells, idx + 1),
               !.fast_blinking = VTruncate(ts.fast_blinking, idx + 1),
               !.slow_blinking = VTruncate(ts.slow_blinking, idx + 1)]

\* the slice lo..hi of every per-cell vector is in range
CellSlicesOk(ts, lo, hi) ==
    /\ SliceOk(ts.cells, lo, hi) /\ SliceOk(ts.cell_font, lo, hi)
    /\ SliceOk(ts.cell_remap, lo, hi) /\ SliceOk(ts.dirty_cells, lo, hi)
    /\ SliceOk(ts.fast_blinking, lo, hi) /\ SliceOk(ts.slow_blinking, lo, hi)

\* the per-cell part of BeforeCursor, CurrentLine and UntilNewLine: reset lo..hi
ClearCells(ts, lo, hi) ==
    [ts EXCEPT !.cells = VFill(ts.cells, lo, hi, EMPTY),
               !.cell_font = VFill(ts.cell_font, lo, hi, 0),
               !.cell_remap = VFill(ts.cell_remap, lo, hi, 0),
               !.dirty_cells = VFill(ts.dirty_cells, lo, hi, TRUE),
               !.fast_blinking = VFill(ts.fast_blinking, lo, hi, FALSE),
               !.slow_blinking = VFill(ts.slow_blinking, lo, hi, FALSE)]

\* a range that starts at the first cell of the grid instead of the line
FromGridStart(line_start, bounds) == [lo |-> 0, hi |-> line_start + bounds.width]

\* the cells clear_region(CurrentLine) resets: [lo, hi), hi exclusive
CurrentLineRange(line_start, bounds) == [lo |-> line_start, hi |-> line_start + bounds.width]

\* clear_region: [ts, rendered, panic]
ClearRegionOp(ts, rend, clear_type, bounds) ==
    LET line_start == ts.cursor[2] * bounds.width
        idx        == line_start + ts.cursor[1]
        row        == ts.cursor[2]
        remain     == SubU16(bounds.width, ts.cursor[1])
        line       == CurrentLineRange(line_start, bounds)
        keep(t)    == [ts |-> t, rendered |-> rend, panic |-> FALSE]
        fail       == [ts |-> ts, rendered |-> rend, panic |-> TRUE]
    IN  CASE clear_type = "All" ->
                [ts |-> ClearAll(ts).ts, rendered |-> ClearAll(ts).rendered, panic |-> FALSE]
          [] clear_type = "AfterCursor" -> keep(ClearAfterCursor(ts, idx))
          [] clear_type = "BeforeCursor" ->
                IF ~CellSlicesOk(ts, 0, idx) \/ ~SliceOk(ts.dirty_rows, 0, row + 1) THEN fail
                ELSE keep([ClearCells(ts, 0, idx) EXCEPT
                             !.dirty_rows = VFill(ts.dirty_rows, 0, row + 1, TRUE)])
          [] clear_type = "CurrentLine" ->
                IF ~CellSlicesOk(ts, line.lo, line.hi) \/ row \notin DOMAIN ts.dirty_rows THEN fail
                ELSE keep([ClearCells(ts, line.lo, line.hi) EXCEPT
                             !.dirty_rows = VSetAll(ts.dirty_rows, {row})])
          [] clear_type = "UntilNewLine" ->
                IF remain.overflow \/ ~CellSlicesOk(ts, idx, idx + remain.value)
                   \/ row \notin DOMAIN ts.dirty_rows THEN fail
                ELSE keep([ClearCells(ts, idx, idx + remain.value) EXCEPT
                             !.dirty_rows = VSetAll(ts.dirty_rows, {row})])

\* rebuild_surface: every per-cell vector, the image lists and rendered are emptied
RebuildSurface(ts) ==
    [ts EXCEPT !.images = << >>, !.cells = EmptyVec, !.cell_font = EmptyVec,
               !.cell_remap = EmptyVec, !.fast_blinking = EmptyVec, !.slow_blinking = EmptyVec,
               !.dirty_rows = EmptyVec, !.dirty_cells = EmptyVec, !.dirty_img = << >>]

\* the size as given
ResizeUnclamped(px, max_texture_dimension_2d) == px

\* resize(): the size clamped to limits.max_texture_dimension_2d
ResizeClamp(px, max_texture_dimension_2d) == Min(px, max_texture_dimension_2d)

\* resize() returns early: same size as now, or a zero dimension
ResizeIgnored(width, height) ==
    (width = surface_config.width /\ height = surface_config.height) \/ width = 0 \/ height = 0

\* Fonts::set_height_px with only the fallback font: the cell box for a height in px
FontCellBox(height_px) == [width |-> height_px \div 2, height |-> height_px]

----------------------------------------------------------------------------
(* The state after Builder::build_with_target.                             *)

\* the blink divisors of Builder::new
BuilderNew == [fast_blink |-> 1, slow_blink |-> 5, cursor_blink |-> 5]

\* the TuiSurface built by a builder b
TuiSurfaceBuilt(b) ==
    [images |-> << >>, cells |-> EmptyVec, cell_font |-> EmptyVec, cell_remap |-> EmptyVec,
     dirty_rows |-> EmptyVec, dirty_cells |-> EmptyVec, dirty_img |-> << >>,
     fast_blinking |-> EmptyVec, slow_blinking |-> EmptyVec,
     cursor |-> << 0, 0 >>, cursor_style |-> "Bar", cursor_visible |-> TRUE,
     cursor_blink |-> 0, cursor_divisor |-> b.cursor_blink, cursor_showing |-> TRUE,
     blink |-> 0, fast_blink_divisor |-> b.fast_blink, fast_blink_showing |-> TRUE,
     slow_blink_divisor |-> b.slow_blink, slow_blink_showing |-> TRUE,
     colors |-> "default"]

TuiSurfaceNew == TuiSurfaceBuilt(BuilderNew)

\* no call of Atlas::get yet
NoGet == [key |-> << >>, rect |-> NoRect, cached |-> FALSE, evicted |-> << >>]

HistNew == [op |-> "new", arg |-> << >>, quiet |-> FALSE, was_quiet |-> FALSE,
            needs_update |-> FALSE, invalidated |-> FALSE, wide |-> {}, ops |-> 0,
            max_ops |-> 0, blinks |-> 0, max_blinks |-> 0, get |-> NoGet, uses |-> << >>,
            recolored |-> FALSE, font |-> << >>, frame |-> << >>, drawn |-> {}]

\* a backend built by builder b with the given cell box, surface size and atlas,
\* followed for max_ops operations of which at most max_blinks are blink(),
\* after n calls of add_image whose handles the application keeps
InitState(b, cb, sc, slots, n, h) ==
    /\ cell_box = cb
    /\ surface_config = sc
    /\ tui_surface = TuiSurfaceBuilt(b)
    /\ rendered = EmptyVec
    /\ image_buffer = << >>
    /\ lock = "free"
    /\ pc = "idle"
    /\ draw_images = << >>
    /\ consumed = << >>
    /\ pushed = << >>
    /\ last_render = [op |-> "new", quads |-> 0, img_render |-> << >>, cells |-> {},
                      pass |-> FALSE, submitted |-> FALSE]
    /\ hist = h
    /\ panicked = FALSE
    /\ wgpu_images = AddedImages(n)
    /\ image_size = AddedImages(n).img
    /\ app_handles = [id \in 0..(n - 1) |-> 1]
    /\ dropped = {}
    /\ wgpu_atlas = AtlasNew(slots)

InitBuild(b, cb, sc, slots, max_ops, max_blinks, n) ==
    InitState(b, cb, sc, slots, n,
              [HistNew EXCEPT !.max_ops = max_ops, !.max_blinks = max_blinks])

\* a default backend whose atlas holds the whole alphabet, after n calls of add_image
InitImages(cb, sc, max_ops, n) == InitBuild(BuilderNew, cb, sc, 0, max_ops, MaxBlinks, n)

\* a backend built with the given cell box and surface size, followed for max_ops operations
InitWith(cb, sc, max_ops) == InitImages(cb, sc, max_ops, 0)

----------------------------------------------------------------------------
(* The operations.                                                         *)

Ready == ~panicked /\ pc = "idle" /\ hist.ops < hist.max_ops

\* the operation named op panics
Panic(op) ==
    /\ panicked' = TRUE
    /\ hist' = [hist EXCEPT !.op = "panic", !.arg = op]
    /\ UNCHANGED << cell_box, surface_config, tui_surface, rendered, image_buffer, lock, pc,
                    draw_images, consumed, pushed, last_render, image_vars, wgpu_atlas >>

\* hist after a completed operation that changes what is drawn
Did(op, arg) == [hist EXCEPT !.op = op, !.arg = arg, !.quiet = FALSE, !.was_quiet = hist.quiet,
                              !.needs_update = FALSE, !.wide = {}, !.drawn = {}, !.ops = @ + 1]

\* hist after a completed operation that is none of draw, cursor, clear, image, resize
DidQuietly(op, arg) == [hist EXCEPT !.op = op, !.arg = arg, !.was_quiet = hist.quiet,
                                     !.needs_update = FALSE, !.wide = {}, !.drawn = {},
                                     !.ops = @ + 1]

\* history of a draw(): the cells at which the content wrote a double-width
\* symbol whose following cell no later item of the content wrote
WideWrites(content, bounds) ==
    {content[k].y * bounds.width + content[k].x : k \in
        {k \in 1..Len(content) :
            /\ SymbolWidth(content[k].cell.symbol) = 2
            /\ \A j \in (k + 1)..Len(content) :
                  content[j].y * bounds.width + content[j].x
                      # content[k].y * bounds.width + content[k].x + 1}}

\* the mutex left free
NoLock == "free"

\* the mutex state while draw() reads and clears the pending placements
DrawLock == "draw"

\* Backend::draw: the content loop, then the pending images under the mutex
\* history: the cells named by the items of content
DrawnCells(content, bounds) ==
    {content[k].y * bounds.width + content[k].x : k \in 1..Len(content)}

Draw(content) ==
    /\ Ready /\ lock = "free"
    /\ \E r \in {DrawTui(tui_surface, rendered, content, image_buffer, Size)} :
           IF r.panic THEN Panic("draw")
           ELSE /\ tui_surface' = r.ts
                /\ rendered' = r.rendered
                /\ consumed' = consumed \o image_buffer
                /\ image_buffer' = << >>
                /\ hist' = [Did("draw", << >>) EXCEPT !.invalidated = FALSE,
                                                      !.wide = WideWrites(content, Size),
                                                      !.drawn = DrawnCells(content, Size)]
                /\ UNCHANGED << cell_box, surface_config, lock, pc, draw_images, pushed,
                                last_render, panicked, image_vars, wgpu_atlas >>

\* draw() up to and including image_buffer.lock()
DrawBegin(content) ==
    /\ Ready /\ lock = "free"
    /\ LET r == DrawTuiCells(tui_surface, rendered, content, Size)
       IN  IF r.panic THEN Panic("draw")
           ELSE /\ tui_surface' = r.ts
                /\ rendered' = r.rendered
                /\ lock' = DrawLock
                /\ pc' = "locked"
                /\ hist' = [hist EXCEPT !.op = "draw_begin", !.wide = WideWrites(content, Size)]
                /\ UNCHANGED << cell_box, surface_config, image_buffer, draw_images, consumed,
                                pushed, last_render, panicked, image_vars, wgpu_atlas >>

\* draw(): the loop over image_buffer.images
DrawScan ==
    /\ ~panicked /\ pc = "locked"
    /\ LET r == DrawTuiScan(tui_surface, image_buffer, Size)
       IN  IF r.panic THEN Panic("draw")
           ELSE /\ tui_surface' = r.ts
                /\ draw_images' = r.images
                /\ consumed' = consumed \o image_buffer
                /\ pc' = "read"
                /\ hist' = [hist EXCEPT !.op = "draw_scan"]
                /\ UNCHANGED << cell_box, surface_config, rendered, image_buffer, lock, pushed,
                                last_render, panicked, image_vars, wgpu_atlas >>

\* draw(): image_buffer.images.clear(), the dirty marking, and the unlock at the end
DrawEnd ==
    /\ ~panicked /\ pc = "read"
    /\ LET r == DrawTuiFinish(tui_surface, draw_images, Size)
       IN  IF r.panic THEN Panic("draw")
           ELSE /\ tui_surface' = r.ts
                /\ image_buffer' = << >>
                /\ draw_images' = << >>
                /\ lock' = "free"
                /\ pc' = "idle"
                /\ hist' = [Did("draw", << >>) EXCEPT !.invalidated = FALSE, !.wide = hist.wide]
                /\ UNCHANGED << cell_box, surface_config, rendered, consumed, pushed,
                                last_render, panicked, image_vars, wgpu_atlas >>

\* ImageBuffer::render_px: the placement is pushed to the pending list
RenderPx(c) ==
    /\ ~panicked
    /\ c.image_id \in DOMAIN app_handles /\ app_handles[c.image_id] > 0
    /\ Len(image_buffer) < MaxPending /\ Len(pushed) < MaxPushed
    /\ image_buffer' = Append(image_buffer, c)
    /\ pushed' = Append(pushed, c)
    /\ hist' = [hist EXCEPT !.op = IF pc = "idle" THEN "image" ELSE @,
                            !.quiet = FALSE, !.was_quiet = hist.quiet, !.ops = @ + 1]
    /\ UNCHANGED << cell_box, surface_config, tui_surface, rendered, lock, pc, draw_images,
                    consumed, last_render, panicked, image_vars, wgpu_atlas >>

\* buffer_mut().render_px(..) in one statement: lock, push, unlock
QueueImage(c) == lock = "free" /\ RenderPx(c)

\* ImageFrame::buffer_mut(): the application takes the mutex and keeps the guard
AppLock ==
    /\ ~panicked /\ lock = "free"
    /\ Len(image_buffer) < MaxPending /\ Len(pushed) < MaxPushed
    /\ lock' = "app"
    /\ UNCHANGED << cell_box, surface_config, tui_surface, rendered, image_buffer, pc,
                    draw_images, consumed, pushed, last_render, hist, panicked, image_vars, wgpu_atlas >>

\* render_px through the guard the application holds
AppPush(c) == lock = "app" /\ RenderPx(c)

\* the application drops the guard
AppUnlock ==
    /\ ~panicked /\ lock = "app"
    /\ lock' = "free"
    /\ UNCHANGED << cell_box, surface_config, tui_surface, rendered, image_buffer, pc,
                    draw_images, consumed, pushed, last_render, hist, panicked, image_vars, wgpu_atlas >>

\* Backend::flush
\* history: what flush() finds when it starts. dirty: the cells whose dirty bit
\* is set; rows: the rows it processes; multi: those of them with more than one
\* visual run; shaped: the cells with a non-empty Rendered list; style: the
\* cursor style.
FrameRows(ts, bounds) ==
    {y \in 0..(Chunks(VLen(ts.cells), bounds.width) - 1) :
        y \in DOMAIN ts.dirty_rows /\ ts.dirty_rows[y]}

FrameRowRuns(ts, bounds, y) ==
    VisualRuns(BidiLevels(RowBuf(ts, y * bounds.width, 0, RowLen(ts, y, bounds))))

FrameNote(ts, rend, bounds) ==
    [dirty  |-> {i \in DOMAIN ts.dirty_cells : ts.dirty_cells[i]},
     rows   |-> IF bounds.width = 0 THEN {} ELSE FrameRows(ts, bounds),
     multi  |-> IF bounds.width = 0 THEN {}
                ELSE {y \in FrameRows(ts, bounds) : Len(FrameRowRuns(ts, bounds, y)) > 1},
     shaped |-> {i \in DOMAIN rend : rend[i] # << >>},
     style  |-> ts.cursor_style]

Flush(needs_update, acquire_ok, empty_panics) ==
    /\ Ready
    /\ \E f \in {FlushTui(tui_surface, rendered, wgpu_atlas, Size, empty_panics)} :
       \E a \in {AppendDirtyRows(f.ts, needs_update, f.rendered)} :
       \E d \in {DropImages(wgpu_images, image_size, dropped)} :
           IF f.panic \/ a.panic THEN Panic("flush")
           ELSE IF ~RenderImgOk(a.vertices, needs_update, wgpu_images) THEN Panic("render_img")
           ELSE /\ tui_surface' = a.ts
                /\ rendered' = f.rendered
                /\ wgpu_atlas' = f.atlas
                /\ last_render' = Render("flush", a.vertices, needs_update, acquire_ok)
                /\ wgpu_images' = d.images
                /\ image_size' = d.image_size
                /\ hist' = [DidQuietly("flush", << >>) EXCEPT !.quiet = TRUE,
                                                              !.needs_update = needs_update,
                                                              !.recolored = FALSE,
                                                              !.frame = FrameNote(tui_surface,
                                                                            rendered, Size)]
                /\ UNCHANGED << cell_box, surface_config, image_buffer, lock, pc, draw_images,
                                consumed, pushed, panicked, app_handles, dropped >>

\* WgpuBackend::blink
Blink(blinking, needs_update, acquire_ok) ==
    /\ Ready
    /\ hist.blinks < hist.max_blinks
    /\ \E r \in {FlushBlink(tui_surface, rendered, blinking, Size)} :
           IF r.panic THEN Panic("blink")
           ELSE IF ~RenderImgOk(r.vertices, needs_update, wgpu_images) THEN Panic("render_img")
           ELSE /\ tui_surface' = r.ts
                /\ last_render' = Render("blink", r.vertices, needs_update, acquire_ok)
                /\ hist' = [DidQuietly("blink", blinking) EXCEPT !.needs_update = needs_update,
                                                                 !.blinks = @ + 1]
                /\ UNCHANGED << cell_box, surface_config, rendered, image_buffer, lock, pc,
                                draw_images, consumed, pushed, panicked, image_vars, wgpu_atlas >>

\* WgpuBackend::add_image; the application keeps the handle returned
AddImage ==
    /\ Ready
    /\ wgpu_images.img_id < MaxImages
    /\ wgpu_images' = AddImageOp(wgpu_images)
    /\ image_size' = image_size \cup {wgpu_images.img_id}
    /\ app_handles' = [id \in 0..wgpu_images.img_id |->
                         IF id = wgpu_images.img_id THEN 1 ELSE app_handles[id]]
    /\ hist' = DidQuietly("add_image", wgpu_images.img_id)
    /\ UNCHANGED << cell_box, surface_config, tui_surface, rendered, image_buffer, lock, pc,
                    draw_images, consumed, pushed, last_render, panicked, dropped, wgpu_atlas >>

\* the application clones a handle it holds
CloneHandle(id) ==
    /\ Ready
    /\ id \in DOMAIN app_handles /\ app_handles[id] > 0 /\ app_handles[id] < MaxClones
    /\ app_handles' = [app_handles EXCEPT ![id] = @ + 1]
    /\ hist' = DidQuietly("clone_handle", id)
    /\ UNCHANGED << cell_box, surface_config, tui_surface, rendered, image_buffer, lock, pc,
                    draw_images, consumed, pushed, last_render, panicked, wgpu_images,
                    image_size, dropped, wgpu_atlas >>

\* the application drops one of the clones it holds
DropHandle(id) ==
    /\ Ready
    /\ id \in DOMAIN app_handles /\ app_handles[id] > 0
    /\ app_handles' = [app_handles EXCEPT ![id] = @ - 1]
    /\ dropped' = HandleDrop(dropped, id)
    /\ hist' = DidQuietly("drop_handle", id)
    /\ UNCHANGED << cell_box, surface_config, tui_surface, rendered, image_buffer, lock, pc,
                    draw_images, consumed, pushed, last_render, panicked, wgpu_images,
                    image_size, wgpu_atlas >>

\* update_color_table(): [ts]
SetColors(ts, new_colors) ==
    [ts EXCEPT !.dirty_rows = EmptyVec, !.dirty_cells = EmptyVec, !.colors = new_colors]

\* WgpuBackend::update_color_table
UpdateColorTable(new_colors) ==
    /\ Ready
    /\ tui_surface' = SetColors(tui_surface, new_colors)
    /\ hist' = [Did("update_color_table", new_colors) EXCEPT !.recolored = TRUE]
    /\ UNCHANGED << cell_box, surface_config, rendered, image_buffer, lock, pc, draw_images,
                    consumed, pushed, last_render, panicked, image_vars, wgpu_atlas >>

\* Atlas::get called for a key of the given width (in cells)
AtlasGetOp(key) ==
    /\ Ready
    /\ LET got == AtlasGet(wgpu_atlas, key, key.width)
       IN  IF got.panic THEN Panic("atlas_get")
           ELSE /\ wgpu_atlas' = got.atlas
                /\ hist' = [DidQuietly("atlas_get", << >>) EXCEPT
                               !.get = [key |-> key, rect |-> got.rect, cached |-> got.cached,
                                        evicted |-> got.evicted],
                               !.uses = Append(@, key)]
                /\ UNCHANGED << cell_box, surface_config, tui_surface, rendered, image_buffer,
                                lock, pc, draw_images, consumed, pushed, last_render, panicked,
                                image_vars >>

\* WgpuBackend::set_cursor_style
SetCursorStyle(style) ==
    /\ Ready
    /\ tui_surface' = [tui_surface EXCEPT !.cursor_style = style]
    /\ hist' = Did("set_cursor_style", style)
    /\ UNCHANGED << cell_box, surface_config, rendered, image_buffer, lock, pc, draw_images,
                    consumed, pushed, last_render, panicked, image_vars, wgpu_atlas >>

\* Backend::set_cursor_position
SetCursorPosition(pos, overflow_checks) ==
    /\ Ready
    /\ LET r == SetCursor(tui_surface, pos, Size, overflow_checks)
       IN  IF r.panic THEN Panic("set_cursor_position")
           ELSE /\ tui_surface' = r.ts
                /\ hist' = Did("set_cursor_position",
                               IF r.ts.cursor # tui_surface.cursor THEN "moved" ELSE "same")
                /\ UNCHANGED << cell_box, surface_config, rendered, image_buffer, lock, pc,
                                draw_images, consumed, pushed, last_render, panicked, image_vars, wgpu_atlas >>

\* Backend::clear
Clear ==
    /\ Ready
    /\ tui_surface' = ClearAll(tui_surface).ts
    /\ rendered' = ClearAll(tui_surface).rendered
    /\ hist' = Did("clear", << >>)
    /\ UNCHANGED << cell_box, surface_config, image_buffer, lock, pc, draw_images, consumed,
                    pushed, last_render, panicked, image_vars, wgpu_atlas >>

\* Backend::clear_region
ClearRegion(clear_type) ==
    /\ Ready
    /\ LET r == ClearRegionOp(tui_surface, rendered, clear_type, Size)
       IN  IF r.panic THEN Panic("clear_region")
           ELSE /\ tui_surface' = r.ts
                /\ rendered' = r.rendered
                /\ hist' = Did("clear_region", clear_type)
                /\ UNCHANGED << cell_box, surface_config, image_buffer, lock, pc, draw_images,
                                consumed, pushed, last_render, panicked, image_vars, wgpu_atlas >>

\* the surface is rebuilt for a new size or cell box
Rebuilt(op, arg, sc, cb) ==
    /\ surface_config' = sc
    /\ cell_box' = cb
    /\ tui_surface' = RebuildSurface(tui_surface)
    /\ rendered' = EmptyVec
    /\ hist' = [Did(op, arg) EXCEPT !.invalidated = TRUE]
    /\ UNCHANGED << image_buffer, lock, pc, draw_images, consumed, pushed, last_render,
                    panicked, image_vars, wgpu_atlas >>

\* WgpuBackend::resize on a device whose largest texture dimension is max_texture
Resize(width, height, max_texture) ==
    /\ Ready
    /\ LET w == ResizeClamp(width, max_texture)
           h == ResizeClamp(height, max_texture)
       IN  IF ResizeIgnored(w, h)
           THEN /\ hist' = DidQuietly("resize_ignored", << width, height >>)
                /\ UNCHANGED << cell_box, surface_config, tui_surface, rendered, image_buffer,
                                lock, pc, draw_images, consumed, pushed, last_render, panicked, image_vars, wgpu_atlas >>
           ELSE Rebuilt("resize", << width, height >>, [width |-> w, height |-> h], cell_box)

\* WgpuBackend::update_font_size
UpdateFontSize(new_font_size) ==
    /\ Ready
    /\ IF FontCellBox(new_font_size).width = 0 \/ FontCellBox(new_font_size).height = 0
       THEN Panic("update_font_size")
       ELSE Rebuilt("update_font_size", new_font_size, surface_config, FontCellBox(new_font_size))

\* WgpuBackend::update_fonts with fonts whose cell box is cb
UpdateFonts(cb) ==
    /\ Ready
    /\ Rebuilt("update_fonts", cb, surface_config, cb)

----------------------------------------------------------------------------
(* Inputs of the operations.                                               *)

\* a cell as the application's buffer hands it to draw()
Cell(sym, mods) == [symbol |-> sym, skip |-> FALSE, modifier |-> mods]

\* every (x, y, cell) for the grid positions and the given cells
Items(bounds, cells) ==
    {[x |-> x, y |-> y, cell |-> c] :
        x \in 0..(bounds.width - 1), y \in 0..(bounds.height - 1), c \in cells}

\* the contents of at most n items
Contents(items, n) == UNION {[1..k -> items] : k \in 0..n}

\* the positions of the grid, and one beyond its last cell
CursorPositions(bounds) ==
    {<< x, y >> : x \in 0..(bounds.width - 1), y \in 0..(bounds.height - 1)}
        \cup {<< bounds.width, bounds.height >>}

Selectors == {"CURSOR", "TEXT", "BOTH"}

ClearTypes == {"All", "AfterCursor", "BeforeCursor", "CurrentLine", "UntilNewLine"}

----------------------------------------------------------------------------
(* Specification of the text surface: a grid of two rows of two cells,     *)
(* drawn, flushed, cleared and blinked, with the cursor moved.             *)

TextCellBox == [width |-> 2, height |-> 2]
TextSurface == [width |-> 4, height |-> 4]
TextGrid == [width |-> 2, height |-> 2]
TextCells == {Cell("a", {}), Cell("W", {})}

Init == InitWith(TextCellBox, TextSurface, TextOps)

Next ==
    \/ \E content \in Contents(Items(TextGrid, TextCells), MaxItems) : Draw(content)
    \/ \E nu \in BOOLEAN, ep \in BOOLEAN : Flush(nu, TRUE, ep)
    \/ \E b \in Selectors : Blink(b, FALSE, TRUE)
    \/ \E pos \in CursorPositions(TextGrid), oc \in BOOLEAN : SetCursorPosition(pos, oc)
    \/ Clear
    \/ \E t \in ClearTypes : ClearRegion(t)

Spec == Init /\ [][Next]_vars

----------------------------------------------------------------------------
(* Properties of the text surface.                                         *)

\* the bits dirty_rows needs for len per-cell entries: ceil(len / cols)
RowBits(len, cols) == IF cols = 0 THEN 0 ELSE (len + cols - 1) \div cols

\* the per-cell vectors have one length and dirty_rows one bit per row of it
VectorsAgree(ts, bounds) ==
    /\ VLen(ts.cell_font) = VLen(ts.cells)
    /\ VLen(ts.cell_remap) = VLen(ts.cells)
    /\ VLen(ts.dirty_cells) = VLen(ts.cells)
    /\ VLen(ts.fast_blinking) = VLen(ts.cells)
    /\ VLen(ts.slow_blinking) = VLen(ts.cells)
    /\ VLen(ts.dirty_rows) = RowBits(VLen(ts.cells), bounds.width)

\* C24: after every public operation (draw, flush, blink, clear, clear_region
\* of any kind, set_cursor_position) that returned, cells, cell_font,
\* cell_remap, dirty_cells, fast_blinking and slow_blinking have the same
\* length L and dirty_rows has exactly ceil(L / cols) bits.
C24_VectorsSameLength == ~panicked => VectorsAgree(tui_surface, Size)

NoDirtyBit ==
    /\ \A y \in DOMAIN tui_surface.dirty_rows : ~tui_surface.dirty_rows[y]
    /\ \A i \in DOMAIN tui_surface.dirty_cells : ~tui_surface.dirty_cells[i]
    /\ tui_surface.dirty_img = << >>

\* C1: after flush() returns, every bit of dirty_rows and of dirty_cells is
\* false and dirty_img is empty, whatever draw, set_cursor_position,
\* clear_region, blink and flush calls came before.
C1_FlushLeavesNothingDirty == hist.op = "flush" => NoDirtyBit

\* the cells of the row y of the grid
RowCells(y, bounds) == (y * bounds.width)..(y * bounds.width + bounds.width - 1)

\* the step is a completed clear_region(CurrentLine)
IsClearCurrentLine ==
    /\ hist'.ops = hist.ops + 1
    /\ hist'.op = "clear_region" /\ hist'.arg = "CurrentLine"

\* what clear_region(CurrentLine) does to the cursor's row and to the other rows
ClearCurrentLineEffect ==
    LET row   == tui_surface.cursor[2]
        line  == RowCells(row, Size)
        t     == tui_surface
        u     == tui_surface'
    IN  /\ DOMAIN u.cells = DOMAIN t.cells
        /\ DOMAIN u.dirty_cells = DOMAIN t.dirty_cells
        /\ DOMAIN u.dirty_rows = DOMAIN t.dirty_rows
        /\ \A i \in line : u.cells[i] = EMPTY /\ u.dirty_cells[i]
        /\ u.dirty_rows[row]
        /\ \A i \in DOMAIN t.cells \ line : u.cells[i] = t.cells[i]
        /\ \A i \in DOMAIN t.dirty_cells \ line : u.dirty_cells[i] = t.dirty_cells[i]
        /\ \A y \in DOMAIN t.dirty_rows \ {row} : u.dirty_rows[y] = t.dirty_rows[y]

\* C4: clear_region(CurrentLine) resets every cell of the cursor's row to the
\* empty cell and marks that row and its cells dirty; the cells, the dirty_rows
\* bit and the dirty_cells bits of every other row are unchanged.
C4_ClearCurrentLine == [][IsClearCurrentLine => ClearCurrentLineEffect]_vars

\* the second row was cleared while the first row keeps a drawn symbol
C4_Witness ==
    /\ hist.op = "clear_region" /\ hist.arg = "CurrentLine"
    /\ tui_surface.cursor[2] = 1
    /\ VLen(tui_surface.cells) = TextGrid.width * TextGrid.height
    /\ \E i \in RowCells(0, Size) : tui_surface.cells[i].symbol = "a"
    /\ \A i \in RowCells(1, Size) : tui_surface.cells[i] = EMPTY /\ tui_surface.dirty_cells[i]

\* C6: when draw() writes a double-width symbol at cell c, cells[c+1] is the
\* skip placeholder NULL_CELL and dirty_cells[c+1] is set together with
\* dirty_cells[c], wherever the symbol can be drawn (draw() returns).
C6_WideSymbolTail ==
    hist.op = "draw" =>
        \A index \in hist.wide :
            /\ tui_surface.cells[index + 1] = NULL_CELL
            /\ tui_surface.cells[index + 1].skip
            /\ tui_surface.dirty_cells[index + 1]
            /\ tui_surface.dirty_cells[index]

\* a double-width symbol was drawn at the first cell of the second row, by a
\* draw() after the first operation
C6_Witness ==
    /\ hist.op = "draw"
    /\ hist.wide = {TextGrid.width}
    /\ tui_surface.cells[TextGrid.width] = Cell("W", {})
    /\ tui_surface.cells[TextGrid.width + 1] = NULL_CELL
    /\ hist.ops > 1

----------------------------------------------------------------------------
(* Specification of the image overlay: the same grid, with placements      *)
(* queued by the application, drawn, flushed and blinked.                  *)

\* an ImageCell as render_px pushes it: view_clip is the target rectangle
ImageCell(id, rect, below, tr) ==
    [image_id |-> id, view_rect |-> rect, view_clip |-> rect, below_text |-> below, tr |-> tr]

\* a target rectangle (x, y, width, height in px) inside the first cell of the
\* first row
RectRow0 == << 0, 0, 1, 1 >>

\* two images at the same place, and the first one again above the text
Placements ==
    {ImageCell(1, RectRow0, TRUE, 0), ImageCell(2, RectRow0, TRUE, 0),
     ImageCell(1, RectRow0, FALSE, 0)}

\* the frames of text drawn under the images: nothing, or a row of mixed direction
MixedRow == << [x |-> 0, y |-> 0, cell |-> Cell("a", {})], [x |-> 1, y |-> 0, cell |-> Cell("r", {})] >>
ImageTexts == {<< >>, MixedRow}

InitImg == InitImages(TextCellBox, TextSurface, ImageOps, 3)

NextImg ==
    \/ \E c \in Placements : Ready /\ QueueImage(c)
    \/ \E content \in ImageTexts : Draw(content)
    \/ \E nu \in BOOLEAN : Flush(nu, TRUE, FALSE)
    \/ \E b \in Selectors : Blink(b, FALSE, TRUE)

SpecImg == InitImg /\ [][NextImg]_vars

----------------------------------------------------------------------------
(* Properties of the image overlay.                                        *)

\* C2: a flush() that follows a flush() with no draw, cursor, clear, image or
\* resize operation in between, with needs_update() false, emits no vertices
\* (glyph, background or image quads) and submits no render pass.
C2_SecondFlushEmitsNothing ==
    (hist.op = "flush" /\ hist.was_quiet /\ ~hist.needs_update) =>
        /\ last_render.op = "flush"
        /\ last_render.quads = 0
        /\ last_render.img_render = << >>
        /\ ~last_render.pass
        /\ ~last_render.submitted

\* the step is a completed blink()
IsBlink == hist'.ops = hist.ops + 1 /\ hist'.op = "blink"

\* C3: blink(b) leaves dirty_rows and dirty_cells unchanged, for every selector
\* b, also when the current or the previous frame holds image placements.
C3_BlinkKeepsDirtyBits ==
    [][IsBlink => /\ tui_surface'.dirty_rows = tui_surface.dirty_rows
                  /\ tui_surface'.dirty_cells = tui_surface.dirty_cells]_vars

\* the step is a completed draw()
IsDraw == hist'.ops = hist.ops + 1 /\ hist'.op = "draw"

SamePlace(p, q) == p.image_id = q.image_id /\ p.view_rect = q.view_rect

\* the placement p of the new frame against the previous frame prev:
\* (a) no placement of the same image at the same rectangle,
\* (b) such placements, none of them with the same below_text and uv_transform
IsNewPlacement(p, prev) == \A j \in 1..Len(prev) : ~SamePlace(p, prev[j])
IsChangedPlacement(p, prev) ==
    /\ \E j \in 1..Len(prev) : SamePlace(p, prev[j])
    /\ \A j \in 1..Len(prev) : SamePlace(p, prev[j]) => prev[j] # p

\* C9: after draw(), dirty_img holds every placement of the current frame
\* that (a) is new, (b) changed its below_text or uv_transform, or (c) covers
\* a row whose dirty_rows bit is set when draw() returns.
C9_DirtyImages ==
    [][IsDraw =>
        \A k \in 1..Len(tui_surface'.images) :
            LET p == tui_surface'.images[k]
            IN  (\/ IsNewPlacement(p, tui_surface.images)
                 \/ IsChangedPlacement(p, tui_surface.images)
                 \/ \E y \in ImgRows(p, Size) : tui_surface'.dirty_rows[y])
                => InSeq(tui_surface'.dirty_img, p)]_vars

----------------------------------------------------------------------------
(* Specification of the row remapping: one row of three cells, drawn with  *)
(* symbols of every width and direction and flushed.                       *)

RowSurface == [width |-> 6, height |-> 2]
RowGrid == [width |-> 3, height |-> 1]
RowSymbols == {Cell("a", {}), Cell("W", {}), Cell("r", {})}

InitRow == InitWith(TextCellBox, RowSurface, RowOps)

NextRow ==
    \/ \E content \in Contents(Items(RowGrid, RowSymbols), MaxItems) : Draw(content)
    \/ \E nu \in BOOLEAN : Flush(nu, TRUE, FALSE)

SpecRow == InitRow /\ [][NextRow]_vars

\* the step is a completed flush()
IsFlush == hist'.ops = hist.ops + 1 /\ hist'.op = "flush"

\* the rows flush() processes: the rows whose dirty_rows bit is set
ProcessedRows == {y \in DOMAIN tui_surface.dirty_rows : tui_surface.dirty_rows[y]}

\* the visual runs of the text of row y
RowRuns(y) == VisualRuns(BidiLevels(RowBuf(tui_surface, y * Size.width, 0, Size.width)))

\* the text of row y forms a single run, left-to-right or right-to-left
SingleLtrRun(y) == Len(RowRuns(y)) = 1 /\ RowRuns(y)[1].level % 2 = 0
SingleRtlRun(y) == Len(RowRuns(y)) = 1 /\ RowRuns(y)[1].level % 2 = 1

\* every cell of row y holds a single-width symbol (no skip cell)
AllSingleWidth(y) ==
    \A i \in RowCells(y, Size) :
        /\ ~tui_surface.cells[i].skip
        /\ tui_surface.cells[i].symbol # ""
        /\ SymbolWidth(tui_surface.cells[i].symbol) = 1

\* C7: after flush(), a processed row whose text forms a single left-to-right
\* run has cell_remap[row*cols + i] = i for every column i, whatever mix of
\* single-width symbols, double-width symbols and skip cells it holds.
C7_LtrRowIsIdentity ==
    [][IsFlush =>
        \A y \in ProcessedRows :
            SingleLtrRun(y) =>
                \A i \in 0..(Size.width - 1) :
                    tui_surface'.cell_remap[y * Size.width + i] = i]_vars

\* C8: after flush(), a processed row that is a single right-to-left run
\* covering N single-width cells has cell_remap[row*cols + i] = N - 1 - i for
\* every cell i of the run.
C8_RtlRowIsMirrored ==
    [][IsFlush =>
        \A y \in ProcessedRows :
            (SingleRtlRun(y) /\ AllSingleWidth(y)) =>
                \A i \in 0..(Size.width - 1) :
                    tui_surface'.cell_remap[y * Size.width + i] = Size.width - 1 - i]_vars

\* a flushed row of two Hebrew letters and a blank, in mirrored order
C8_Witness ==
    /\ hist.op = "flush"
    /\ VLen(tui_surface.cells) = RowGrid.width /\ VLen(rendered) = RowGrid.width
    /\ tui_surface.cells[0].symbol = "r" /\ tui_surface.cells[1].symbol = "r"
    /\ tui_surface.cells[2].symbol = " "
    /\ SingleRtlRun(0) /\ AllSingleWidth(0)
    /\ tui_surface.cell_remap = [i \in 0..2 |-> 2 - i]
    /\ \A i \in 0..2 : Len(rendered[i]) = 1 /\ rendered[i][1].x = (2 - i) * cell_box.width

----------------------------------------------------------------------------
(* Specification of resizing: the surface is resized and its fonts are     *)
(* replaced, between draws and flushes of the grid of the moment.          *)

\* device.limits() of the model's device
DeviceLimits == [max_texture_dimension_2d |-> 6]

ResizeWidths == {0, 2, 5, 8}
ResizeHeights == {2, 4}
FontSizes == {2, 4}
FontBoxes == {[width |-> 2, height |-> 2], [width |-> 3, height |-> 2]}

InitResize == InitWith(TextCellBox, TextSurface, ResizeOps)

NextResize ==
    \/ \E w \in ResizeWidths, h \in ResizeHeights :
          Resize(w, h, DeviceLimits.max_texture_dimension_2d)
    \/ \E px \in FontSizes : UpdateFontSize(px)
    \/ \E cb \in FontBoxes : UpdateFonts(cb)
    \/ \E content \in Contents(Items(Size, {Cell("a", {})}), MaxItems) : Draw(content)
    \/ \E nu \in BOOLEAN : Flush(nu, TRUE, FALSE)

SpecResize == InitResize /\ [][NextResize]_vars

\* the step is a completed resize() that was not ignored
IsResize == hist'.ops = hist.ops + 1 /\ hist'.op = "resize"

\* the grid after resize(w, h): the clamped size divided by the cell box
ResizedGrid ==
    LET w == Min(hist'.arg[1], DeviceLimits.max_texture_dimension_2d)
        h == Min(hist'.arg[2], DeviceLimits.max_texture_dimension_2d)
    IN  /\ Size'.width = w \div cell_box.width
        /\ Size'.height = h \div cell_box.height
        /\ cell_box' = cell_box

\* every per-cell vector covers the grid and every dirty bit is set
FullyInvalidated ==
    /\ DOMAIN tui_surface.dirty_rows = 0..(Size.height - 1)
    /\ DOMAIN tui_surface.dirty_cells = 0..(Size.height * Size.width - 1)
    /\ DOMAIN tui_surface.cells = 0..(Size.height * Size.width - 1)
    /\ \A y \in DOMAIN tui_surface.dirty_rows : tui_surface.dirty_rows[y]
    /\ \A i \in DOMAIN tui_surface.dirty_cells : tui_surface.dirty_cells[i]

----------------------------------------------------------------------------
(* Specification of the shared ImageBuffer: the application thread pushes  *)
(* placements through the mutex guard while the render thread draws, the   *)
(* draw split at its accesses to the pending list.                         *)

InitLock == InitImages(TextCellBox, TextSurface, LockOps, 3)

NextLock ==
    \/ AppLock
    \/ \E c \in Placements : AppPush(c)
    \/ AppUnlock
    \/ DrawBegin(<< >>)
    \/ DrawScan
    \/ DrawEnd

SpecLock == InitLock /\ [][NextLock]_vars

----------------------------------------------------------------------------
(* Specification of the image handles: images are added, their handles     *)
(* cloned and dropped, placed on the first row, drawn, flushed and blinked *)
(* under the cursor.                                                       *)

HandlePlacements == {ImageCell(id, RectRow0, TRUE, 0) : id \in 0..(MaxImages - 1)}

InitHandle == InitWith(TextCellBox, TextSurface, HandleOps)

NextHandle ==
    \/ AddImage
    \/ \E id \in 0..(MaxImages - 1) : CloneHandle(id)
    \/ \E id \in 0..(MaxImages - 1) : DropHandle(id)
    \/ \E c \in HandlePlacements : Ready /\ QueueImage(c)
    \/ Draw(<< >>)
    \/ Flush(FALSE, TRUE, FALSE)
    \/ Blink("CURSOR", FALSE, TRUE)

SpecHandle == InitHandle /\ [][NextHandle]_vars

C12_ImageQuadsRegistered == ~(panicked /\ hist.op = "panic" /\ hist.arg = "render_img")

----------------------------------------------------------------------------
(* Specification of the atlas: glyph keys of one and two cells are         *)
(* requested from an atlas of AtlasSlots columns.                          *)

AtlasSymbols == {"a", "r", " ", "W"}

AtlasKeys == {GlyphKey(Cell(sym, {}), sym, SymbolWidth(sym), 0) : sym \in AtlasSymbols}

InitAtlas == InitBuild(BuilderNew, TextCellBox, TextSurface, AtlasSlots, AtlasOps, MaxBlinks, 0)

NextAtlas == \E key \in AtlasKeys : AtlasGetOp(key)

SpecAtlas == InitAtlas /\ [][NextAtlas]_vars

\* the step is a completed Atlas::get
IsAtlasGet == hist'.ops = hist.ops + 1 /\ hist'.op = "atlas_get"

\* the number of the last request of a key in the log of requests (0: never)
LastUse(uses, key) ==
    IF \E k \in 1..Len(uses) : uses[k] = key
    THEN CHOOSE k \in 1..Len(uses) : uses[k] = key /\ \A j \in (k + 1)..Len(uses) : uses[j] # key
    ELSE 0

\* the keys the atlas holds
AtlasCached(atlas) == {atlas.entries[k].key : k \in 1..Len(atlas.entries)}

\* C13: a get() evicts in order of least recent use (a hit counts as a use):
\* every evicted key was last requested before every key that stays, the
\* evictions are in order of last request, and a key that stays keeps its
\* rectangle; a get() of a key that stayed is a hit and returns that rectangle.
C13_AtlasEvictsLeastRecentlyUsed ==
    [][IsAtlasGet =>
        LET ev   == hist'.get.evicted
            gone == {ev[k] : k \in 1..Len(ev)}
            kept == AtlasCached(wgpu_atlas) \ gone
        IN  /\ gone \subseteq AtlasCached(wgpu_atlas)
            /\ \A e \in gone, k \in kept : LastUse(hist.uses, e) < LastUse(hist.uses, k)
            /\ \A i \in 1..Len(ev), j \in 1..Len(ev) :
                  i < j => LastUse(hist.uses, ev[i]) < LastUse(hist.uses, ev[j])
            /\ \A k \in kept : /\ k \in AtlasCached(wgpu_atlas')
                                /\ AtlasRect(wgpu_atlas', k) = AtlasRect(wgpu_atlas, k)
            /\ hist'.get.key \in AtlasCached(wgpu_atlas)
                  => /\ hist'.get.cached
                     /\ ev = << >>
                     /\ hist'.get.rect = AtlasRect(wgpu_atlas, hist'.get.key)]_vars

\* the last get() evicted two keys while the key inserted first, which was
\* requested again since, is still cached
C13_Witness ==
    /\ hist.op = "atlas_get"
    /\ Len(hist.get.evicted) = 2
    /\ hist.uses[1] \in AtlasCached(wgpu_atlas)
    /\ \A k \in 1..Len(hist.get.evicted) : hist.get.evicted[k] # hist.uses[1]

----------------------------------------------------------------------------
(* Specification of the blink counter: backends built with several         *)
(* divisors for rapid and slow blink, and blink() called more often than   *)
(* the u8 counter counts.                                                  *)

BlinkDivisors == {1, 3, 5, 8}

InitBlinks ==
    \E f \in BlinkDivisors, sl \in BlinkDivisors :
        InitBuild([BuilderNew EXCEPT !.fast_blink = f, !.slow_blink = sl],
                  TextCellBox, TextSurface, 0, BlinkCalls, BlinkCalls, 0)

NextBlinks == \E b \in Selectors : Blink(b, FALSE, TRUE)

SpecBlinks == InitBlinks /\ [][NextBlinks]_vars

\* C14: with a divisor N > 0 the showing flag of rapid blink, and of slow
\* blink, toggles on the calls N, 2N, 3N, ... of blink() counted from
\* construction, and on no other call.
C14_TogglesEveryNthCall ==
    [][IsBlink =>
        /\ tui_surface.fast_blink_divisor > 0 =>
              ((tui_surface'.fast_blink_showing # tui_surface.fast_blink_showing)
                  <=> (hist'.blinks % tui_surface.fast_blink_divisor = 0))
        /\ tui_surface.slow_blink_divisor > 0 =>
              ((tui_surface'.slow_blink_showing # tui_surface.slow_blink_showing)
                  <=> (hist'.blinks % tui_surface.slow_blink_divisor = 0))]_vars

----------------------------------------------------------------------------
(* Specification of the color table: the text surface drawn and flushed,   *)
(* with the color table replaced.                                          *)

ColorTables == {"default", "t"}

InitColors == InitWith(TextCellBox, TextSurface, ColorOps)

NextColors ==
    \/ \E content \in Contents(Items(TextGrid, {Cell("a", {})}), MaxItems) : Draw(content)
    \/ \E nu \in BOOLEAN : Flush(nu, TRUE, FALSE)
    \/ \E t \in ColorTables : UpdateColorTable(t)

SpecColors == InitColors /\ [][NextColors]_vars

\* C15: after update_color_table(t) the next flush(), with or without a
\* draw() in between, completes and emits every cell the surface holds (the
\* whole grid once a frame was drawn) with the color table t.
C15_RecolorRepaintsAll ==
    [][(hist.recolored /\ (IsFlush \/ (panicked' /\ hist'.arg = "flush")))
          => /\ IsFlush
             /\ last_render'.cells = DOMAIN tui_surface.cells
             /\ tui_surface'.colors = tui_surface.colors]_vars

\* ---------------------------------------------------------------------------
\* Font selection (font/fonts.rs).  A font is [id, maps]: its id and the set of
\* characters its face has a glyph for.  The Fonts lists are sequences of fonts.
\* ---------------------------------------------------------------------------

MaxCluster == 2    \* characters in a cell's symbol
FontChars == {"a", "b"}

\* cluster.chars().enumerate().fold((0, 0), ..): the mapped characters and the
\* index of the last character (0 for the empty cluster).
FontCount(candidate, cluster) ==
    Cardinality({i \in 1..Len(cluster) : cluster[i] \in candidate.maps})

FontLastIdx(cluster) == IF Len(cluster) = 0 THEN 0 ELSE Len(cluster) - 1

SelectBetterOrEqual(count, max) == count >= max

\* `if count > max`
SelectBetter(count, max) == count > max

RECURSIVE SelectLoop(_, _, _, _)
SelectLoop(cluster, fonts, i, s) ==
    IF i > Len(fonts) THEN s
    ELSE LET candidate == fonts[i]
             count == FontCount(candidate, cluster)
             s1 == IF SelectBetter(count, s.max)
                   THEN [s EXCEPT !.max = count, !.font = << candidate.id >>]
                   ELSE s
         IN  IF count = FontLastIdx(cluster) + 1 THEN s1
             ELSE SelectLoop(cluster, fonts, i + 1,
                             [s1 EXCEPT !.last_resort = << candidate.id >>])

\* Option<u64> is a sequence of length 0 or 1.
select_font(cluster, fonts) ==
    LET s == SelectLoop(cluster, fonts, 1, [max |-> 0, font |-> << >>, last_resort |-> << >>])
    IN  IF s.font # << >> THEN [id |-> s.font[1], panic |-> FALSE]
        ELSE IF s.last_resort # << >> THEN [id |-> s.last_resort[1], panic |-> FALSE]
        ELSE [id |-> 0, panic |-> TRUE]

font_for_cell(fonts, cell) ==
    IF {"BOLD", "ITALIC"} \subseteq cell.modifier
    THEN select_font(cell.symbol, fonts.bold_italic \o fonts.italic \o fonts.bold
                                     \o fonts.regular \o fonts.fallback)
    ELSE IF "BOLD" \in cell.modifier
    THEN select_font(cell.symbol, fonts.bold \o fonts.regular \o fonts.fallback)
    ELSE IF "ITALIC" \in cell.modifier
    THEN select_font(cell.symbol, fonts.italic \o fonts.regular \o fonts.fallback)
    ELSE select_font(cell.symbol, fonts.regular \o fonts.fallback)

\* The call on the Fonts and the Cell of hist.font: the chosen id is recorded,
\* or the panic.
FontForCell ==
    /\ Ready
    /\ LET r == font_for_cell(hist.font.fonts, hist.font.cell)
       IN  /\ panicked' = r.panic
           /\ hist' = [hist EXCEPT !.op = IF r.panic THEN "panic" ELSE "font_for_cell",
                                   !.arg = "font_for_cell",
                                   !.ops = @ + 1,
                                   !.font.id = r.id]
    /\ UNCHANGED << cell_box, surface_config, tui_surface, rendered, image_buffer, lock, pc,
                    draw_images, consumed, pushed, last_render, image_vars, wgpu_atlas >>

\* Each list holds no font or one font; the ids are in insertion order
\* (Fonts::new gives the fallback font id 0).
FontList(id) == {<< >>} \cup {<< [id |-> id, maps |-> m] >> : m \in SUBSET FontChars}

FontSets ==
    {[fallback |-> fb, regular |-> r, bold |-> b, italic |-> i, bold_italic |-> bi] :
        fb \in FontList(0), r \in FontList(1), b \in FontList(2), i \in FontList(3),
        bi \in FontList(4)}

Clusters == UNION {[1..n -> FontChars] : n \in 0..MaxCluster}

FontCells == {[symbol |-> c, modifier |-> m] : c \in Clusters,
                                                m \in SUBSET {"BOLD", "ITALIC"}}

\* The Fonts and the Cell are drawn here; font_for_cell is called once.
InitFont ==
    \E fonts \in FontSets, cell \in FontCells :
        InitState(BuilderNew, TextCellBox, TextSurface, 0, 0,
                  [HistNew EXCEPT !.max_ops = 1,
                                  !.font = [fonts |-> fonts, cell |-> cell, id |-> 0]])

NextFont == FontForCell

SpecFont == InitFont /\ [][NextFont]_vars

\* The candidate order the styles are documented to have.
FontPriority(fonts, modifier) ==
    IF {"BOLD", "ITALIC"} \subseteq modifier
    THEN << "bold_italic", "italic", "bold", "regular", "fallback" >>
    ELSE IF "BOLD" \in modifier THEN << "bold", "regular", "fallback" >>
    ELSE IF "ITALIC" \in modifier THEN << "italic", "regular", "fallback" >>
    ELSE << "regular", "fallback" >>

RECURSIVE FontChain(_, _, _)
FontChain(fonts, names, i) ==
    IF i > Len(names) THEN << >> ELSE fonts[names[i]] \o FontChain(fonts, names, i + 1)

FontCandidates(fonts, modifier) == FontChain(fonts, FontPriority(fonts, modifier), 1)

MapsAll(candidate, cluster) == \A i \in 1..Len(cluster) : cluster[i] \in candidate.maps

\* The documented choice among a non-empty candidate list.
FontExpected(cands, cluster, empty_is_complete) ==
    LET complete == {i \in 1..Len(cands) :
                        /\ MapsAll(cands[i], cluster)
                        /\ (empty_is_complete \/ cluster # << >>)}
        best == CHOOSE n \in 0..Len(cluster) :
                    /\ \E i \in 1..Len(cands) : FontCount(cands[i], cluster) = n
                    /\ \A i \in 1..Len(cands) : FontCount(cands[i], cluster) <= n
        first(S) == CHOOSE i \in S : \A j \in S : i <= j
    IN  IF complete # {} THEN cands[first(complete)].id
        ELSE IF best > 0
        THEN cands[first({i \in 1..Len(cands) : FontCount(cands[i], cluster) = best})].id
        ELSE cands[Len(cands)].id

IsFontForCell == hist'.arg = "font_for_cell" /\ hist'.ops = hist.ops + 1

FontAsDocumented(empty_is_complete) ==
    IsFontForCell =>
        LET f == hist'.font
            cands == FontCandidates(f.fonts, f.cell.modifier)
        IN  /\ panicked' <=> cands = << >>
            /\ ~panicked' => f.id = FontExpected(cands, f.cell.symbol, empty_is_complete)

FrameOps == 4

FrameCells == {Cell("a", {}), Cell("r", {})}

\* a frame that changes nothing, or one cell
FrameContents == {<< >>} \cup {<< item >> : item \in Items(TextGrid, FrameCells)}

InitFrame == InitWith(TextCellBox, TextSurface, FrameOps)

NextFrame ==
    \/ \E content \in FrameContents : Draw(content)
    \/ \E nu \in BOOLEAN : Flush(nu, TRUE, FALSE)
    \/ \E pos \in CursorPositions(TextGrid) : SetCursorPosition(pos, TRUE)
    \/ Clear
    \/ \E t \in ClearTypes : ClearRegion(t)

SpecFrame == InitFrame /\ [][NextFrame]_vars

\* every cell of the grid has its dirty bit set
AllCellsDirty(ts, bounds) ==
    /\ VLen(ts.dirty_cells) = bounds.width * bounds.height
    /\ \A i \in DOMAIN ts.dirty_cells : ts.dirty_cells[i]

\* C25: after clear() followed by draw(content), where content may leave out
\* blank cells, every cell of the grid has its dirty bit set.
C25_ClearThenDrawDirtiesAll ==
    [][(hist.op = "clear" /\ IsDraw) => AllCellsDirty(tui_surface', Size)]_vars

\* the cells flush() may rebuild: dirty, or in a processed row of several runs
FrameRebuilt(i) ==
    LET f == FrameNote(tui_surface, rendered, Size)
    IN  \/ i \in f.dirty
        \/ i \div Size.width \in f.multi

\* C17: flush() leaves the Rendered list of a cell as it was when the cell's
\* dirty bit is clear at the start of flush and its row is not processed or has
\* at most one visual run; only dirty cells and the cells of a processed row
\* with more than one run get a new list.
C17_CleanCellsKeepRendered ==
    [][IsFlush =>
        \A i \in DOMAIN rendered :
            ~FrameRebuilt(i) => (i \in DOMAIN rendered' /\ rendered'[i] = rendered[i])]_vars

\* C17 witness: a flush processed a row of one run in which one cell was
\* dirty and another, shaped by an earlier flush, was not; the latter still has
\* its glyph.
C17_Witness ==
    /\ hist.op = "flush"
    /\ \E i \in hist.frame.shaped \ hist.frame.dirty :
          /\ i \div Size.width \in hist.frame.rows \ hist.frame.multi
          /\ \E j \in hist.frame.dirty : j \div Size.width = i \div Size.width
          /\ rendered[i] # << >>

\* the Rendered list shape() builds for a cell from its content alone: one
\* glyph per character of a non-skip cell, keyed by the cell's style
FreshFrom(list, cell) ==
    LET chars == IF cell.skip THEN << >> ELSE Chars(cell.symbol)
    IN  /\ Len(list) = Len(chars)
        /\ \A k \in 1..Len(list) :
              /\ list[k].glyph = chars[k]
              /\ list[k].key.style = cell.modifier \cap {"BOLD", "ITALIC"}

StaleOps == 5

StaleCells == {Cell("a", {}), Cell("W", {})}

InitStale == InitBuild(BuilderNew, TextCellBox, RowSurface, AtlasSlots, StaleOps, MaxBlinks, 0)

NextStale ==
    \/ \E item \in Items(RowGrid, StaleCells) : Draw(<< item >>)
    \/ Flush(FALSE, TRUE, FALSE)
    \/ Blink("CURSOR", FALSE, TRUE)

SpecStale == InitStale /\ [][NextStale]_vars

\* C19: every glyph quad flush() or blink() has emitted from a cell's Rendered
\* list carries the atlas rectangle that the atlas still holds for the glyph's
\* own key: the rectangle was not evicted and handed to another key since the
\* cell was shaped.
C19_EmittedRectsAssigned ==
    (hist.op \in {"flush", "blink"}) =>
        \A i \in last_render.cells \cap DOMAIN rendered :
            \A k \in 1..Len(rendered[i]) :
                AtlasRect(wgpu_atlas, rendered[i][k].key) = rendered[i][k].cached

\* ---------------------------------------------------------------------------
\* The cursor's blink counter: frames, cursor moves and blink calls on the
\* 2x2 grid of a default backend (cursor divisor 5).
\* ---------------------------------------------------------------------------

CursorOps == 5
CursorBlinks == 3

InitCursor == InitBuild(BuilderNew, TextCellBox, TextSurface, 0, CursorOps, CursorBlinks, 0)

NextCursor ==
    \/ \E content \in {<< >>, << [x |-> 0, y |-> 0, cell |-> Cell("a", {})] >>} : Draw(content)
    \/ Flush(FALSE, TRUE, FALSE)
    \/ \E b \in Selectors : Blink(b, FALSE, TRUE)
    \/ \E pos \in CursorPositions(TextGrid) : SetCursorPosition(pos, TRUE)

SpecCursor == InitCursor /\ [][NextCursor]_vars

\* C20: when set_cursor_position has changed the cursor position, the next
\* blink() call starts counting from a cursor blink counter of 0 with the
\* cursor in its showing phase.
C20_CursorMoveResetsBlink ==
    [][(IsBlink /\ hist.op = "set_cursor_position" /\ hist.arg = "moved")
          => (tui_surface.cursor_blink = 0 /\ tui_surface.cursor_showing)]_vars

\* ---------------------------------------------------------------------------
\* Glyph overlap: frames on one row of three cells with Latin, Hebrew and
\* double-width symbols.
\* ---------------------------------------------------------------------------

OverlapOps == 4

InitOverlap == InitWith(TextCellBox, RowSurface, OverlapOps)

NextOverlap ==
    \/ \E item \in Items(RowGrid, RowSymbols) : Draw(<< item >>)
    \/ Flush(FALSE, TRUE, FALSE)

SpecOverlap == InitOverlap /\ [][NextOverlap]_vars

\* the pixel box of glyph g meets the area of cell j, which the last flush
\* placed at visual column cell_remap[j]
GlyphMeetsCell(g, j) ==
    LET col == tui_surface.cell_remap[j]
        row == j \div Size.width
    IN  /\ g.x < (col + 1) * cell_box.width /\ col * cell_box.width < g.x + g.width
        /\ g.y < (row + 1) * cell_box.height /\ row * cell_box.height < g.y + g.height

\* every cell met by a glyph rendered for one of the cells is dirty, with its row
OldGlyphsDirty(replaced) ==
    \A i \in replaced \cap DOMAIN rendered :
        \A k \in 1..Len(rendered[i]) :
            \A j \in DOMAIN tui_surface.cell_remap :
                GlyphMeetsCell(rendered[i][k], j) =>
                    /\ tui_surface'.dirty_cells[j]
                    /\ tui_surface'.dirty_rows[j \div Size.width]

\* C21: when draw() replaces the content of a cell, every cell whose area the
\* box of a glyph previously rendered for that cell meets is dirty afterwards,
\* and so is every row the box spans.
C21_OldGlyphCellsDirty ==
    [][IsDraw => OldGlyphsDirty(hist'.drawn)]_vars

\* every cell of row y holds one single-width symbol and is not a skip cell
PlainRow(y) ==
    \A i \in RowCells(y, Size) :
        /\ i \in DOMAIN tui_surface.cells
        /\ ~tui_surface.cells[i].skip
        /\ SymbolWidth(tui_surface.cells[i].symbol) = 1

\* the cell_remap values of row y are the columns 0..cols-1, each once
RemapIsPermutation(ts, y, bounds) ==
    {ts.cell_remap[i] : i \in RowCells(y, bounds)} = 0..(bounds.width - 1)

\* C26: after flush(), for every processed row in which every cell holds one
\* single-width non-skip symbol, the cell_remap values of the row form a
\* permutation of 0..cols-1, whatever the runs and the paragraph direction.
C26_RemapIsPermutation ==
    [][IsFlush =>
        \A y \in ProcessedRows :
            PlainRow(y) => RemapIsPermutation(tui_surface', y, Size)]_vars

\* ---------------------------------------------------------------------------
\* The cursor style under bidi text: one row of three cells, frames of Latin
\* and Hebrew letters, cursor moves and every cursor style.
\* ---------------------------------------------------------------------------

StyleOps == 4

CursorStyles ==
    {"Block", "Underscore", "BoldUnderscore", "Bar", "BoldBar", "RtlBar", "RtlBoldBar"}

InitStyle == InitWith(TextCellBox, RowSurface, StyleOps)

NextStyle ==
    \/ \E item \in Items(RowGrid, FrameCells) : Draw(<< item >>)
    \/ Flush(FALSE, TRUE, FALSE)
    \/ \E style \in CursorStyles : SetCursorStyle(style)
    \/ \E pos \in CursorPositions(RowGrid) : SetCursorPosition(pos, TRUE)

SpecStyle == InitStyle /\ [][NextStyle]_vars

\* the bidi level of the text of the cursor cell in its row, -1 when the row is
\* not processed by flush() or the cell contributes no text
CursorLevel ==
    LET x == tui_surface.cursor[1]
        y == tui_surface.cursor[2]
        text == RowBuf(tui_surface, y * Size.width, 0, RowLen(tui_surface, y, Size))
        at == {k \in 1..Len(text) : text[k].cell = x}
    IN  IF y \notin FrameRows(tui_surface, Size) \/ at = {} THEN -1
        ELSE BidiLevels(text)[CHOOSE k \in at : TRUE]

\* the documented right-to-left and left-to-right variants of a style
StyleRtl(style) ==
    IF style = "Bar" THEN "RtlBar" ELSE IF style = "BoldBar" THEN "RtlBoldBar" ELSE style

StyleLtr(style) ==
    IF style = "RtlBar" THEN "Bar" ELSE IF style = "RtlBoldBar" THEN "BoldBar" ELSE style

\* C22: a flush() that finds the cursor at a cell of a right-to-left run of a
\* processed row turns Bar into RtlBar and BoldBar into RtlBoldBar and leaves
\* Block, Underscore and BoldUnderscore as they are.
C22_RtlRunFlipsBar ==
    [][(IsFlush /\ CursorLevel # -1 /\ CursorLevel % 2 = 1
            /\ tui_surface.cursor_style \notin {"RtlBar", "RtlBoldBar"})
          => tui_surface'.cursor_style = StyleRtl(tui_surface.cursor_style)]_vars

\* C22 witness: a flush turned the bold bar at a Hebrew letter into its
\* right-to-left variant.
C22_Witness ==
    /\ hist.op = "flush"
    /\ tui_surface.cursor_style = "RtlBoldBar"
    /\ hist.frame.style = "BoldBar"
    /\ \E i \in DOMAIN tui_surface.cells :
          /\ i = tui_surface.cursor[2] * Size.width + tui_surface.cursor[1]
          /\ tui_surface.cells[i].symbol = "r"

\* C23: a flush() that finds the cursor at a cell of a left-to-right run of a
\* processed row leaves no right-to-left variant: RtlBar becomes Bar, RtlBoldBar
\* becomes BoldBar, and the other styles stay, so that a style flipped under
\* right-to-left text comes back to itself.
C23_LtrRunRestoresBar ==
    [][(IsFlush /\ CursorLevel # -1 /\ CursorLevel % 2 = 0)
          => tui_surface'.cursor_style = StyleLtr(tui_surface.cursor_style)]_vars

\* ---------------------------------------------------------------------------
\* The cursor under a changing grid: the cursor is moved on a drawn grid, and
\* the window or the font size changes afterwards.

\* most operations followed from construction in the cursor-bounds specification
BoundsOps == 3

InitBounds == InitWith(TextCellBox, TextSurface, BoundsOps)

NextBounds ==
    \/ \E w \in ResizeWidths, h \in ResizeHeights :
          Resize(w, h, DeviceLimits.max_texture_dimension_2d)
    \/ \E px \in FontSizes : UpdateFontSize(px)
    \/ \E content \in Contents(Items(Size, {Cell("a", {})}), 1) : Draw(content)
    \/ \E pos \in CursorPositions(TextGrid), oc \in BOOLEAN : SetCursorPosition(pos, oc)
    \/ Clear

SpecBounds == InitBounds /\ [][NextBounds]_vars

\* C27: after any sequence of draw, clear, set_cursor_position, resize and
\* update_font_size calls that returned, the stored cursor lies inside the
\* current grid: its column is below cols and its row below rows.
C27_CursorInsideGrid ==
    ~panicked => /\ tui_surface.cursor[1] < Size.width
                 /\ tui_surface.cursor[2] < Size.height

\* ---------------------------------------------------------------------------
\* The flat cell index in 16-bit arithmetic, on grids of real size.

\* u16 multiplication and addition: [panic, value]; an overflow panics in a
\* build with overflow checks and wraps in a build without
U16Mul(a, b, overflow_checks) ==
    [panic |-> overflow_checks /\ a * b > 65535, value |-> (a * b) % 65536]

U16Add(a, b, overflow_checks) ==
    [panic |-> overflow_checks /\ a + b > 65535, value |-> (a + b) % 65536]

\* (y * bounds.width + x) as usize with y, x and bounds.width of type u16
FlatIndex(x, y, bounds, overflow_checks) ==
    CHOOSE r \in {[panic |-> m.panic \/ U16Add(m.value, x, overflow_checks).panic,
                   value |-> U16Add(m.value, x, overflow_checks).value] :
                     m \in {U16Mul(y, bounds.width, overflow_checks)}} : TRUE

\* pos_to_cell: (cell_y * bounds.width) as usize
RowOffset(cell_y, bounds, overflow_checks) == U16Mul(cell_y, bounds.width, overflow_checks)

\* the index of the cell (x, y) as draw() and blink() compute it when they
\* walk the cells under a glyph or an image
CellIndex(x, y, overflow_checks) ==
    /\ Ready
    /\ \E r \in {FlatIndex(x, y, Size, overflow_checks)} :
          IF r.panic THEN Panic("cell_index")
          ELSE /\ hist' = DidQuietly("cell_index", [x |-> x, y |-> y, index |-> r.value])
               /\ UNCHANGED << cell_box, surface_config, tui_surface, rendered, image_buffer,
                               lock, pc, draw_images, consumed, pushed, last_render, panicked,
                               image_vars, wgpu_atlas >>

\* the offset of the row cell_y as pos_to_cell computes it
PosToCell(cell_y, overflow_checks) ==
    /\ Ready
    /\ \E r \in {RowOffset(cell_y, Size, overflow_checks)} :
          IF r.panic THEN Panic("pos_to_cell")
          ELSE /\ hist' = DidQuietly("pos_to_cell", [x |-> 0, y |-> cell_y, index |-> r.value])
               /\ UNCHANGED << cell_box, surface_config, tui_surface, rendered, image_buffer,
                               lock, pc, draw_images, consumed, pushed, last_render, panicked,
                               image_vars, wgpu_atlas >>

\* most operations followed from construction in the index specification
IndexOps == 2
\* limits.max_texture_dimension_2d of the device
IndexLimit == 8192
\* the window sizes asked for, in px
IndexWindows == {[width |-> 16, height |-> 32], [width |-> 1920, height |-> 1080],
                 [width |-> 3840, height |-> 2160], [width |-> 10000, height |-> 8192]}
IndexCellBoxes == {[width |-> 8, height |-> 16], [width |-> 6, height |-> 12]}

\* the columns and rows at which an index is taken: the corners and the middle
IndexColumns == {0, Size.width - 1}
IndexRows == {0, 1, Size.height \div 2, Size.height - 1}

InitIndex ==
    \E w \in IndexWindows, cb \in IndexCellBoxes :
        InitWith(cb, [width  |-> ResizeClamp(w.width, IndexLimit),
                      height |-> ResizeClamp(w.height, IndexLimit)], IndexOps)

NextIndex ==
    \/ \E x \in IndexColumns, y \in IndexRows, oc \in BOOLEAN : CellIndex(x, y, oc)
    \/ \E y \in IndexRows, oc \in BOOLEAN : PosToCell(y, oc)

SpecIndex == InitIndex /\ [][NextIndex]_vars

\* C28: for every grid the surface clamp permits, also with rows * cols above
\* 65535, the flat index computed from (row, column) equals row * cols + column:
\* the 16-bit arithmetic neither wraps nor panics.
C28_FlatIndexExact ==
    /\ hist.op # "panic"
    /\ hist.op \in {"cell_index", "pos_to_cell"} =>
          hist.arg.index = hist.arg.y * Size.width + hist.arg.x

\* ---------------------------------------------------------------------------
\* Flushes whose surface texture cannot be acquired.

\* most operations followed from construction in the acquire specification
AcquireOps == 3

InitAcquire == InitWith(TextCellBox, TextSurface, AcquireOps)

NextAcquire ==
    \/ \E content \in Contents(Items(TextGrid, {Cell("a", {})}), 1) : Draw(content)
    \/ \E nu \in BOOLEAN, ok \in BOOLEAN : Flush(nu, ok, FALSE)

SpecAcquire == InitAcquire /\ [][NextAcquire]_vars

\* the last operation was a flush() that built quads for some cells and then
\* failed to acquire the surface texture
AcquireFailed ==
    /\ hist.op = "flush"
    /\ last_render.op = "flush" /\ last_render.pass /\ ~last_render.submitted
    /\ last_render.cells # {}

\* C29: when flush() fails to acquire the surface texture, the dirty cells of
\* that flush are presented by the next flush() that acquires it, without a
\* draw() in between.
C29_FailedAcquireIsRetried ==
    [][(AcquireFailed /\ IsFlush)
          => \/ last_render'.pass /\ ~last_render'.submitted
             \/ last_render'.submitted /\ last_render.cells \subseteq last_render'.cells]_vars

\* ---------------------------------------------------------------------------
\* The rows draw() writes to.

\* the content of cell i before a draw(): what the resize of draw_tui leaves
CellBefore(i) == IF i \in DOMAIN tui_surface.cells THEN tui_surface.cells[i] ELSE EMPTY

\* the rows named by the items of the content of the draw() just completed
DrawnRows == {i \div Size.width : i \in hist'.drawn}

\* C30: draw(content) changes the content of cells only in rows named by an
\* item of content: a symbol drawn at (x, y), whatever its width and column,
\* overwrites no cell of another row and indexes no cell past the end of the
\* grid.
C30_DrawStaysInItsRows ==
    [][/\ ~(hist'.op = "panic" /\ hist'.arg = "draw")
       /\ IsDraw => \A i \in DOMAIN tui_surface'.cells :
                        tui_surface'.cells[i] # CellBefore(i) => i \div Size.width \in DrawnRows]_vars

============================================================================
